---- MODULE Spec2Model ----
(***************************************************************************)
(* Model of the nearby-trains proximity tracker (js/tracker.js), its       *)
(* spotting log (js/storage.js) and the refresh loop that drives them      *)
(* (app.js).                                                               *)
(*                                                                         *)
(* Geometry: every point lies on one meridian and latitudes are counted in *)
(* miles of arc north of a reference parallel, so the haversine distance   *)
(* of two points is the absolute difference of their latitudes.            *)
(* Time: Date.now() is the variable now, in ticks; a calendar day          *)
(* (toDateString) is TicksPerDay ticks long.                               *)
(***************************************************************************)
EXTENDS Integers, Sequences, FiniteSets, Bags, TLC

VARIABLES
  currentTrains,    \* Tracker.currentTrains
  nearbyTrains,     \* Tracker.nearbyTrains
  closestTrain,     \* Tracker.closestTrain (Null or Some(record))
  previousTrains,   \* Tracker.previousTrains: trainID -> previous distance
  session,          \* Tracker.session
  nearbyStations,   \* Tracker.nearbyStations
  history,          \* localStorage nt_history
  locations,        \* localStorage nt_locations
  activeName,       \* localStorage nt_active_location
  settings,         \* localStorage nt_settings (Null or Some(the stored object))
  now,              \* Date.now()
  isRefreshing,     \* App.isRefreshing
  refreshGeneration,\* App.refreshGeneration
  countdownTimer,   \* App.countdownTimer: TRUE while the interval timer is set
  intervals,        \* the number of interval timers set with setInterval and not cleared
  tasks,            \* the App.refresh calls in flight (a bag), each at its await
  bound,            \* App.init has bound the event handlers
  hidden,           \* document.hidden
  console,          \* the last message App.refresh wrote to the console
  stationsCache,    \* App.stationsCache (Null or Some(stations))
  stationsCacheTime,\* App.stationsCacheTime
  lastPoll,         \* history variable: generation of the refresh last processed and shown
  polls,            \* history variable: the number of processTrains calls so far
  lastArgs,         \* history variable: userLat and radius of the last processTrains call
  runMin,           \* history variable: per id, least distance of its current run of polls
  pos0Seen,         \* history variable: distances seen at nearby[0] since the last reset
  appended,         \* history variable: per key, the number of addSpotting calls so far
  stationsPassed,   \* history variable: the list last passed to processStations since the last reset
  dv,               \* the bytes of the buffer handed to the decoder (a DataView)
  offset,           \* the offset handed to readVarint
  source,           \* history variable: what the buffer or the response was made from
  decoded,          \* what the last decoder call returned or threw (Null before it)
  mta,              \* MTAClient.getAllTrains: the state of each feed's fetchFeed call
  toast,            \* the message UI.showToast showed last
  lastCall,         \* a client's lastCall
  calls,            \* the client's rateLimit calls waiting for their timeout (a bag of wake times)
  passed            \* history variable: the times at which calls left rateLimit, in order

trainVars == <<currentTrains, nearbyTrains, closestTrain, previousTrains, session>>
trackerVars == <<trainVars, nearbyStations>>
storageVars == <<history, locations, activeName, settings>>
cacheVars == <<stationsCache, stationsCacheTime>>
appVars == <<isRefreshing, refreshGeneration, countdownTimer, intervals, tasks, bound, hidden, console,
            lastPoll, cacheVars>>
ghostVars == <<polls, lastArgs, runMin, pos0Seen, appended, stationsPassed>>
decoderVars == <<dv, offset, source, decoded, mta>>
rateVars == <<lastCall, calls, passed>>
miscVars == <<toast, rateVars>>
vars == <<trackerVars, storageVars, now, appVars, ghostVars, decoderVars, miscVars>>

----------------------------------------------------------------------------
(* Bounds *)

MaxNow == 2
TicksPerDay == 2
MaxPolls == 3
MaxGeneration == 2

TrainIDs == {"t1", "t2"}
Lats == 0..3
Velocities == {0, 40}

(* null / a value *)
Null == <<>>
Some(x) == <<x>>

(* session.closestDistance starts at Infinity: larger than every distance *)
Infinity == 1000000

(* history.slice(-500) *)
HistoryCap == 500

(* the trains one API poll can return: records with pairwise distinct ids *)
Trains == [trainID : TrainIDs, lat : Lats, velocity : Velocities]
Batches ==
  {<<>>} \cup {<<a>> : a \in Trains}
         \cup {<<p[1], p[2]>> : p \in {q \in Trains \X Trains : q[1].trainID # q[2].trainID}}

EmptyMap == [k \in {} |-> 0]

----------------------------------------------------------------------------
(* AmtrakerClient.haversineDistance, for two points of one meridian *)
haversineDistance(lat1, lat2) == IF lat2 >= lat1 THEN lat2 - lat1 ELSE lat1 - lat2

(* new Date(t).toDateString(): the calendar day of a timestamp *)
toDateString(t) == t \div TicksPerDay

(* Math.round of the quotient a / b of two naturals, b > 0 (half rounds up) *)
RoundDiv(a, b) == (2 * a + b) \div (2 * b)

----------------------------------------------------------------------------
(* Storage *)

(* a client's minInterval, in ticks *)
minInterval == 2

(* Storage.getActiveLocation: the saved location with the active name, or null *)
getActiveLocation ==
  LET hits == SelectSeq(locations, LAMBDA l : l.name = activeName)
  IN  IF activeName = "" \/ hits = <<>> THEN Null ELSE Some(hits[1])

(* history.findIndex(...) of addSpotting: first entry of this train, today, here; 0 if none *)
FindExisting(hist, train) ==
  LET idx == {i \in 1..Len(hist) :
                /\ hist[i].trainID = train.trainID
                /\ toDateString(hist[i].firstSeen) = toDateString(now)
                /\ hist[i].locationName = train.locationName}
  IN  IF idx = {} THEN 0 ELSE CHOOSE i \in idx : \A j \in idx : i <= j

(* a trim that keeps the first HistoryCap entries *)
TrimmedOldest(hist) ==
  IF Len(hist) > HistoryCap THEN SubSeq(hist, 1, HistoryCap) ELSE hist

(* history.slice(-500) *)
Trimmed(hist) ==
  IF Len(hist) > HistoryCap THEN SubSeq(hist, Len(hist) - HistoryCap + 1, Len(hist)) ELSE hist

(* Storage.addSpotting: the stored history afterwards and the value returned.
   The function has no return statement, so the caller receives undefined. *)
addSpotting(hist, train) ==
  LET existing == FindExisting(hist, train)
      updated ==
        IF existing > 0
        THEN [hist EXCEPT ![existing] =
                [@ EXCEPT !.closestDistance =
                            IF train.distance < @ THEN train.distance ELSE @,
                          !.closestTime =
                            IF train.distance < hist[existing].closestDistance THEN now ELSE @,
                          !.lastSeen = now,
                          !.sightings = @ + 1]]
        ELSE Append(hist, [trainID |-> train.trainID,
                           locationName |-> train.locationName,
                           closestDistance |-> train.distance,
                           closestTime |-> now,
                           speed |-> train.velocity,
                           firstSeen |-> now,
                           lastSeen |-> now,
                           sightings |-> 1])
  IN  [history |-> Trimmed(updated), ret |-> "undefined"]

(* Storage.getTodayHistory(locationName) *)
getTodayHistory(locationName) ==
  SelectSeq(history, LAMBDA h : /\ toDateString(h.firstSeen) = toDateString(now)
                                /\ h.locationName = locationName)

----------------------------------------------------------------------------
(* Tracker *)

(* trains.map(train => ({...train, distance})) *)
WithDistance(trains, userLat) ==
  [i \in 1..Len(trains) |->
     trains[i] @@ [distance |-> haversineDistance(userLat, trains[i].lat)]]

(* Array.prototype.sort((a, b) => a.distance - b.distance): stable *)
RECURSIVE InsertByDistance(_, _)
InsertByDistance(t, sorted) ==
  IF sorted = <<>> THEN <<t>>
  ELSE IF t.distance < Head(sorted).distance THEN <<t>> \o sorted
  ELSE <<Head(sorted)>> \o InsertByDistance(t, Tail(sorted))

RECURSIVE SortByDistance(_)
SortByDistance(s) ==
  IF s = <<>> THEN <<>>
  ELSE InsertByDistance(s[Len(s)], SortByDistance(SubSeq(s, 1, Len(s) - 1)))

(* Nearby with the filter t.distance < radius *)
NearbyStrict(trainsWithDistance, radius) ==
  SortByDistance(SelectSeq(trainsWithDistance, LAMBDA t : t.distance < radius))

(* trainsWithDistance.filter(t => t.distance <= radius).sort(...) *)
Nearby(trainsWithDistance, radius) ==
  SortByDistance(SelectSeq(trainsWithDistance, LAMBDA t : t.distance <= radius))

(* Classify with train.distance <= prevDistance for approaching *)
ClassifyLte(train, prev) ==
  LET known == train.trainID \in DOMAIN prev
      isApproaching == known /\ train.distance <= prev[train.trainID]
      isReceding == known /\ train.distance > prev[train.trainID]
      flagged == train @@ [approaching |-> isApproaching, receding |-> isReceding]
  IN  IF isReceding
      THEN flagged @@ [closestApproach |-> prev[train.trainID]]
      ELSE flagged

(* the body of the first nearby.forEach: approaching, receding, closestApproach *)
Classify(train, prev) ==
  LET known == train.trainID \in DOMAIN prev
      isApproaching == known /\ train.distance < prev[train.trainID]
      isReceding == known /\ train.distance > prev[train.trainID]
      flagged == train @@ [approaching |-> isApproaching, receding |-> isReceding]
  IN  IF isReceding
      THEN flagged @@ [closestApproach |-> prev[train.trainID]]
      ELSE flagged

(* if (added): the truthiness of addSpotting's return value *)
Truthy(v) == v = "true"

(* Tracker.logSpotting for nearby[i..]: the history and session.spotted afterwards *)
RECURSIVE LogSpottings(_, _, _, _)
LogSpottings(nearby, i, hist, spotted) ==
  IF i > Len(nearby) THEN [history |-> hist, spotted |-> spotted]
  ELSE LET activeLocation == getActiveLocation
           locationName == IF activeLocation = Null THEN "Unknown" ELSE activeLocation[1].name
           spottingData == [trainID |-> nearby[i].trainID,
                            distance |-> nearby[i].distance,
                            velocity |-> nearby[i].velocity,
                            locationName |-> locationName]
           r == addSpotting(hist, spottingData)
       IN  LogSpottings(nearby, i + 1, r.history,
                        IF Truthy(r.ret) THEN spotted + 1 ELSE spotted)

(* NewPrevious without this.previousTrains.clear(): the new distances merged into the table *)
NewPreviousMerged(trainsWithDistance) ==
  LET ids == {trainsWithDistance[i].trainID : i \in 1..Len(trainsWithDistance)}
  IN  [id \in ids \cup DOMAIN previousTrains |->
         IF id \in ids
         THEN trainsWithDistance[CHOOSE i \in 1..Len(trainsWithDistance) :
                 trainsWithDistance[i].trainID = id /\
                 \A j \in 1..Len(trainsWithDistance) :
                    trainsWithDistance[j].trainID = id => j <= i].distance
         ELSE previousTrains[id]]

(* this.previousTrains.clear(); trainsWithDistance.forEach(t => set(t.trainID, t.distance)) *)
NewPrevious(trainsWithDistance) ==
  [id \in {trainsWithDistance[i].trainID : i \in 1..Len(trainsWithDistance)} |->
     LET last == CHOOSE i \in 1..Len(trainsWithDistance) :
                   /\ trainsWithDistance[i].trainID = id
                   /\ \A j \in 1..Len(trainsWithDistance) :
                        trainsWithDistance[j].trainID = id => j <= i
     IN  trainsWithDistance[last].distance]

(* SessionClosest with closest.distance <= this.session.closestDistance *)
SessionClosestLte(s, closest) ==
  IF closest # Null /\ closest[1].distance <= s.closestDistance
  THEN [s EXCEPT !.closestDistance = closest[1].distance, !.closestTrain = closest]
  ELSE s

(* the session's closest train after a poll whose closest is `closest` *)
SessionClosest(s, closest) ==
  IF closest # Null /\ closest[1].distance < s.closestDistance
  THEN [s EXCEPT !.closestDistance = closest[1].distance, !.closestTrain = closest]
  ELSE s

(* SessionSpeed with t.velocity >= 0: stopped trains counted *)
RECURSIVE SessionSpeedAll(_, _, _)
SessionSpeedAll(s, nearby, i) ==
  IF i > Len(nearby) THEN s
  ELSE SessionSpeedAll(
         [s EXCEPT !.totalSpeed = @ + nearby[i].velocity, !.speedCount = @ + 1],
         nearby, i + 1)

(* the second nearby.forEach: speed statistics over nearby[i..] *)
RECURSIVE SessionSpeed(_, _, _)
SessionSpeed(s, nearby, i) ==
  IF i > Len(nearby) THEN s
  ELSE SessionSpeed(
         IF nearby[i].velocity # 0 /\ nearby[i].velocity > 0
         THEN [s EXCEPT !.totalSpeed = @ + nearby[i].velocity, !.speedCount = @ + 1]
         ELSE s,
         nearby, i + 1)

(* history variable: the least distance of each id over its current run of polls *)
RunMinAfter(trainsWithDistance) ==
  LET np == NewPrevious(trainsWithDistance)
  IN  [id \in DOMAIN np |->
         IF id \in DOMAIN runMin /\ runMin[id] < np[id] THEN runMin[id] ELSE np[id]]

(* the key addSpotting looks an entry up by: the train, the day, the place *)
KeyOf(trainID, time, locationName) == <<trainID, toDateString(time), locationName>>

(* history variable: one more addSpotting call for every train of nearby *)
AppendedAfter(nearby) ==
  LET activeLocation == getActiveLocation
      locationName == IF activeLocation = Null THEN "Unknown" ELSE activeLocation[1].name
      keys == {KeyOf(nearby[i].trainID, now, locationName) : i \in 1..Len(nearby)}
  IN  [k \in keys \cup DOMAIN appended |->
         (IF k \in DOMAIN appended THEN appended[k] ELSE 0)
           + Cardinality({i \in 1..Len(nearby) : KeyOf(nearby[i].trainID, now, locationName) = k})]

(* Tracker.processTrains(trains, userLat, userLon, radius); it does not touch
   this.nearbyStations *)
processTrains(trains, userLat, radius) ==
  LET trainsWithDistance == WithDistance(trains, userLat)
      filtered == Nearby(trainsWithDistance, radius)
      nearby == [i \in 1..Len(filtered) |-> Classify(filtered[i], previousTrains)]
      logged == LogSpottings(nearby, 1, history, session.spotted)
      closest == IF Len(nearby) > 0 THEN Some(nearby[1]) ELSE Null
      s1 == [session EXCEPT !.spotted = logged.spotted]
      s2 == SessionClosest(s1, closest)
      s3 == SessionSpeed(s2, nearby, 1)
  IN  /\ history' = logged.history
      /\ previousTrains' = NewPrevious(trainsWithDistance)
      /\ session' = s3
      /\ currentTrains' = trainsWithDistance
      /\ nearbyTrains' = nearby
      /\ closestTrain' = closest
      /\ polls' = polls + 1
      /\ lastArgs' = [userLat |-> userLat, radius |-> radius]
      /\ runMin' = RunMinAfter(trainsWithDistance)
      /\ pos0Seen' = IF closest = Null THEN pos0Seen ELSE pos0Seen \cup {closest[1].distance}
      /\ appended' = AppendedAfter(nearby)

(* Tracker.processStations(stations) *)
processStations(stations) ==
  /\ nearbyStations' = stations
  /\ stationsPassed' = Some(stations)

(* getStats with the session's counter for spottedToday *)
getStatsSessionCount ==
  [nearbyCount |-> Len(nearbyTrains),
   spottedToday |-> session.spotted,
   closestDistance |-> IF closestTrain # Null THEN Some(closestTrain[1].distance) ELSE Null,
   avgSpeed |-> IF session.speedCount > 0
                THEN Some(RoundDiv(session.totalSpeed, session.speedCount))
                ELSE Null,
   sessionClosest |-> IF session.closestDistance < Infinity
                      THEN Some(session.closestDistance) ELSE Null,
   stationCount |-> Len(nearbyStations)]

(* Tracker.getStats *)
getStats ==
  LET activeLocation == getActiveLocation
      todayHistory == IF activeLocation = Null THEN <<>>
                      ELSE getTodayHistory(activeLocation[1].name)
  IN  [nearbyCount |-> Len(nearbyTrains),
       spottedToday |-> Len(todayHistory),
       closestDistance |-> IF closestTrain # Null THEN Some(closestTrain[1].distance) ELSE Null,
       avgSpeed |-> IF session.speedCount > 0
                    THEN Some(RoundDiv(session.totalSpeed, session.speedCount))
                    ELSE Null,
       sessionClosest |-> IF session.closestDistance < Infinity
                          THEN Some(session.closestDistance) ELSE Null,
       stationCount |-> Len(nearbyStations)]

(* the object resetSession assigns to this.session *)
FreshSession ==
  [spotted |-> 0, closestDistance |-> Infinity, closestTrain |-> Null,
   totalSpeed |-> 0, speedCount |-> 0, startTime |-> now]

(* resetSession without this.previousTrains.clear() *)
resetSessionKeepsTable ==
  /\ session' = FreshSession
  /\ previousTrains' = previousTrains
  /\ currentTrains' = <<>>
  /\ nearbyTrains' = <<>>
  /\ closestTrain' = Null
  /\ runMin' = EmptyMap
  /\ pos0Seen' = {}
  /\ nearbyStations' = <<>>
  /\ stationsPassed' = Null
  /\ UNCHANGED <<polls, lastArgs, appended>>

(* Tracker.resetSession *)
resetSession ==
  /\ session' = FreshSession
  /\ previousTrains' = EmptyMap
  /\ currentTrains' = <<>>
  /\ nearbyTrains' = <<>>
  /\ closestTrain' = Null
  /\ runMin' = EmptyMap
  /\ pos0Seen' = {}
  /\ nearbyStations' = <<>>
  /\ stationsPassed' = Null
  /\ UNCHANGED <<polls, lastArgs, appended>>

----------------------------------------------------------------------------
(* The tracker driven directly by its caller *)

SavedLocations == <<[name |-> "A", lat |-> 0], [name |-> "B", lat |-> 3]>>

(* Tracker and App once the scripts are loaded: nothing fetched, nothing tracked *)
Constructed ==
  /\ currentTrains = <<>>
  /\ nearbyTrains = <<>>
  /\ closestTrain = Null
  /\ previousTrains = EmptyMap
  /\ now = 0
  /\ session = [spotted |-> 0, closestDistance |-> Infinity, closestTrain |-> Null,
                totalSpeed |-> 0, speedCount |-> 0, startTime |-> 0]
  /\ polls = 0
  /\ lastArgs = [userLat |-> 0, radius |-> 0]
  /\ runMin = EmptyMap
  /\ pos0Seen = {}
  /\ isRefreshing = FALSE
  /\ refreshGeneration = 0
  /\ countdownTimer = FALSE
  /\ intervals = 0
  /\ toast = ""
  /\ lastCall = 0 - minInterval
  /\ calls = EmptyBag
  /\ passed = <<>>
  /\ tasks = EmptyBag
  /\ bound = FALSE
  /\ hidden = FALSE
  /\ console = ""
  /\ lastPoll = Null
  /\ nearbyStations = <<>>
  /\ stationsPassed = Null
  /\ stationsCache = Null
  /\ stationsCacheTime = 0

(* the state once the scripts are loaded, with two saved locations, the first
   of them active, and an empty spotting log *)
Loaded ==
  /\ Constructed
  /\ history = <<>>
  /\ locations = SavedLocations
  /\ activeName = "A"
  /\ settings = Null
  /\ appended = EmptyMap

Init ==
  /\ Loaded
  /\ dv = <<>>
  /\ offset = 0
  /\ source = Null
  /\ decoded = Null
  /\ mta = Null

(* one poll: the caller hands a fetched batch to processTrains, with the
   coordinates of the active location *)
Poll(batches, radii) ==
  /\ polls < MaxPolls
  /\ getActiveLocation # Null
  /\ \E trains \in batches, radius \in radii :
       processTrains(trains, getActiveLocation[1].lat, radius)
  /\ UNCHANGED <<nearbyStations, stationsPassed>>
  /\ UNCHANGED <<locations, activeName, settings, now, appVars, decoderVars, miscVars>>

(* the caller resets the tracker *)
Reset ==
  /\ resetSession
  /\ UNCHANGED <<storageVars, now, appVars, decoderVars, miscVars>>

(* Location.setActive(name) *)
SetActive ==
  /\ \E i \in 1..Len(locations) : activeName' = locations[i].name
  /\ UNCHANGED <<trackerVars, history, locations, settings, now, appVars, ghostVars, decoderVars, miscVars>>

(* time passes *)
Tick ==
  /\ now < MaxNow
  /\ now' = now + 1
  /\ UNCHANGED <<trackerVars, storageVars, appVars, ghostVars, decoderVars, miscVars>>

(* polls of stopped trains at every position *)
MotionBatches == {b \in Batches : \A i \in 1..Len(b) : b[i].velocity = 0}

Next == Poll(MotionBatches, {2}) \/ Reset

Spec == Init /\ [][Next]_vars

(* polls of moving and stopped trains inside and outside the radius *)
SpeedBatches == {b \in Batches : \A i \in 1..Len(b) : b[i].lat \in {1, 3}}

NextSpeed == Poll(SpeedBatches, {2}) \/ Reset

SpecSpeed == Init /\ [][NextSpeed]_vars

(* the first poll of a session: any batch, from either place, with any radius *)
FirstPoll ==
  /\ polls = 0
  /\ \E trains \in Batches, i \in 1..Len(locations), radius \in Lats :
       processTrains(trains, locations[i].lat, radius)
  /\ UNCHANGED <<nearbyStations, stationsPassed>>
  /\ UNCHANGED <<locations, activeName, settings, now, appVars, decoderVars, miscVars>>

NextOnce == FirstPoll

SpecOnce == Init /\ [][NextOnce]_vars

(* polls of stopped trains at one position, on several days and at several places *)
LogBatches == {b \in Batches : \A i \in 1..Len(b) : b[i].lat = 1 /\ b[i].velocity = 0}

NextLog == Poll(LogBatches, {2}) \/ SetActive \/ Tick

SpecLog == Init /\ [][NextLog]_vars

----------------------------------------------------------------------------
(* App: the refresh loop.  A step is one run of JavaScript between two
   awaits; a task is a refresh call suspended at an await. *)

(* the feeds' answers while the app runs: one moving train, or none *)
AppBatches == {b \in Batches : Len(b) <= 1 /\ \A i \in 1..Len(b) :
                 b[i].trainID = "t1" /\ b[i].lat \in {1, 2} /\ b[i].velocity = 40}

(* refresh without the generation check after the fetch *)
NeverStale(task) == FALSE

(* myGeneration !== this.refreshGeneration *)
IsStale(task) == task.gen # refreshGeneration

(* App.refresh(forceLocation) up to its first await, entered with
   isRefreshing = refreshing and refreshGeneration = generation: the flag
   afterwards and the task left in flight, if any *)
refresh(forceLocation, refreshing, generation, fromStart, fromInit) ==
  IF refreshing
  THEN [isRefreshing |-> TRUE, console |-> "skipping", started |-> EmptyBag]
  ELSE LET activeLocation == IF forceLocation # Null THEN forceLocation
                             ELSE getActiveLocation
       IN  IF activeLocation = Null
           THEN [isRefreshing |-> FALSE, console |-> console, started |-> EmptyBag]
           ELSE [isRefreshing |-> TRUE,
                 console |-> "refreshing",
                 started |-> SetToBag({[gen |-> generation,
                                        loc |-> activeLocation[1],
                                        pc |-> "fetch",
                                        since |-> 0,
                                        fromStart |-> fromStart,
                                        fromInit |-> fromInit]})]

(* App.stopRefresh: clearInterval(this.countdownTimer) when it is set *)
stopRefresh ==
  /\ countdownTimer' = FALSE
  /\ intervals' = IF countdownTimer THEN intervals - 1 ELSE intervals

(* startRefresh without this.stopRefresh() *)
startRefreshKeepsTimer ==
  /\ countdownTimer' = TRUE
  /\ intervals' = intervals + 1

(* App.startRefresh: this.stopRefresh(), then this.countdownTimer = setInterval(...) *)
startRefresh ==
  /\ countdownTimer' = TRUE
  /\ intervals' = (IF countdownTimer THEN intervals - 1 ELSE intervals) + 1

(* App.start(location) up to the await of its refresh: stopRefresh, the flag
   cleared, a new generation, the tracker reset, the first refresh begun *)
start(location, fromInit) ==
  LET r == refresh(Some(location), FALSE, refreshGeneration + 1, TRUE, fromInit)
  IN  /\ refreshGeneration < MaxGeneration
      /\ stopRefresh
      /\ refreshGeneration' = refreshGeneration + 1
      /\ lastPoll' = Null
      /\ resetSession
      /\ isRefreshing' = r.isRefreshing
      /\ console' = r.console
      /\ tasks' = tasks (+) r.started
      /\ UNCHANGED <<history, settings, now, hidden, stationsCacheTime>>

(* App.init with a saved active location: start(activeLocation) *)
AppInit ==
  /\ refreshGeneration = 0
  /\ getActiveLocation # Null
  /\ start(getActiveLocation[1], TRUE)
  /\ UNCHANGED <<locations, activeName, bound, stationsCache, decoderVars, miscVars>>

(* a location tab is chosen: Location.setActive(name); this.stationsCache =
   null; this.start(loc) *)
SwitchLocation ==
  /\ bound
  /\ \E i \in 1..Len(locations) :
       /\ activeName' = locations[i].name
       /\ start(locations[i], FALSE)
  /\ stationsCache' = Null
  /\ UNCHANGED <<locations, bound, decoderVars, miscVars>>

(* the refresh button, or the key r: this.refresh() *)
RefreshButton ==
  LET r == refresh(Null, isRefreshing, refreshGeneration, FALSE, FALSE)
  IN  /\ bound
      /\ isRefreshing' = r.isRefreshing
      /\ console' = r.console
      /\ tasks' = tasks (+) r.started
      /\ UNCHANGED <<trackerVars, storageVars, now, ghostVars,
                     refreshGeneration, countdownTimer, intervals, bound, hidden, lastPoll,
                     cacheVars,
                     decoderVars, miscVars>>

(* the countdown reaches 0: this.refresh() *)
TimerFire ==
  LET r == refresh(Null, isRefreshing, refreshGeneration, FALSE, FALSE)
  IN  /\ countdownTimer
      /\ isRefreshing' = r.isRefreshing
      /\ console' = r.console
      /\ tasks' = tasks (+) r.started
      /\ UNCHANGED <<trackerVars, storageVars, now, ghostVars,
                     refreshGeneration, countdownTimer, intervals, bound, hidden, lastPoll,
                     cacheVars,
                     decoderVars, miscVars>>

(* visibilitychange: hidden stops the timer; visible refreshes and restarts it *)
VisibilityChange ==
  LET r == refresh(Null, isRefreshing, refreshGeneration, FALSE, FALSE)
  IN  /\ bound
      /\ hidden' = ~hidden
      /\ IF ~hidden
         THEN /\ stopRefresh
              /\ UNCHANGED <<isRefreshing, tasks, console>>
         ELSE /\ isRefreshing' = r.isRefreshing
              /\ console' = r.console
              /\ tasks' = tasks (+) r.started
              /\ startRefresh
      /\ UNCHANGED <<trackerVars, storageVars, now, ghostVars,
                     refreshGeneration, bound, lastPoll, cacheVars, decoderVars, miscVars>>

(* a refresh call returns to its caller: start goes on to startRefresh, and
   init to bindEvents *)
Returned(task) ==
  /\ tasks' = tasks (-) SetToBag({task})
  /\ IF task.fromStart THEN startRefresh ELSE UNCHANGED <<countdownTimer, intervals>>
  /\ bound' = (bound \/ task.fromInit)

(* STATIONS_CACHE_DURATION, 5 minutes, in ticks: a cache filled at an earlier
   tick has expired *)
STATIONS_CACHE_DURATION == 1

(* this.stationsCache && (now - this.stationsCacheTime) < this.STATIONS_CACHE_DURATION *)
CacheValid == stationsCache # Null /\ (now - stationsCacheTime) < STATIONS_CACHE_DURATION

(* what AmtrakerClient.getStationsNearPoint resolves with for a location: the
   stations around it *)
StationsNear(location) ==
  {<<[code |-> "S1", near |-> location.name]>>,
   <<[code |-> "S1", near |-> location.name], [code |-> "S2", near |-> location.name]>>}

(* the answer while the refresh loop is looked at: no station is near *)
AppStations(location) == {<<>>}

(* the feeds answer: the generation check, then Tracker.processTrains and the
   display of its result, then refreshStations up to its await: with a valid
   cache it hands the cache to processStations and returns, otherwise it
   waits for getStationsNearPoint *)
FetchResolved ==
  \E task \in BagToSet(tasks) :
    /\ task.pc = "fetch"
    /\ IF IsStale(task)
       THEN /\ console' = "discarding"
            /\ isRefreshing' = FALSE
            /\ Returned(task)
            /\ UNCHANGED <<trackerVars, history, ghostVars, lastPoll>>
       ELSE /\ polls < MaxPolls
            /\ \E trains \in AppBatches :
                 processTrains(trains, task.loc.lat, 2)   \* settings.radius
            /\ lastPoll' = Some(task.gen)
            /\ IF CacheValid
               THEN /\ processStations(stationsCache[1])
                    /\ tasks' = (tasks (-) SetToBag({task}))
                                  (+) SetToBag({[task EXCEPT !.pc = "stations"]})
               ELSE /\ UNCHANGED <<nearbyStations, stationsPassed>>
                    /\ tasks' = (tasks (-) SetToBag({task}))
                                  (+) SetToBag({[task EXCEPT !.pc = "stationsFetch",
                                                             !.since = now]})
            /\ UNCHANGED <<isRefreshing, countdownTimer, intervals, bound, console>>
    /\ UNCHANGED <<locations, activeName, settings, now, refreshGeneration, hidden, cacheVars,
                   decoderVars, miscVars>>

(* a fetch fails: the catch block *)
FetchRejected ==
  \E task \in BagToSet(tasks) :
    /\ task.pc = "fetch"
    /\ console' = IF IsStale(task) THEN console ELSE "error"
    /\ isRefreshing' = FALSE
    /\ Returned(task)
    /\ UNCHANGED <<trackerVars, storageVars, now, ghostVars,
                   refreshGeneration, hidden, lastPoll, cacheVars, decoderVars, miscVars>>

(* an end of refresh that leaves the flag as it is *)
RefreshEndsKeepsFlag(task) ==
  /\ console' = IF IsStale(task) THEN console ELSE "complete"
  /\ UNCHANGED isRefreshing
  /\ Returned(task)

(* refresh after await this.refreshStations(...): the second generation check
   and the end of refresh *)
RefreshEnds(task) ==
  /\ console' = IF IsStale(task) THEN console ELSE "complete"
  /\ isRefreshing' = FALSE
  /\ Returned(task)

(* refreshStations had a valid cache and has returned *)
StationsDone ==
  \E task \in BagToSet(tasks) :
    /\ task.pc = "stations"
    /\ RefreshEnds(task)
    /\ UNCHANGED <<trackerVars, storageVars, now, ghostVars,
                   refreshGeneration, hidden, lastPoll, cacheVars, decoderVars, miscVars>>

(* getStationsNearPoint resolves, with stations (some) or with none:
   refreshStations fills the cache, hands the stations to processStations and
   returns to refresh *)
StationsFetched(some) ==
  \E task \in BagToSet(tasks) :
    /\ task.pc = "stationsFetch"
    /\ \E stations \in (IF some THEN StationsNear(task.loc) ELSE AppStations(task.loc)) :
         /\ stationsCache' = Some(stations)
         /\ stationsCacheTime' = task.since
         /\ processStations(stations)
    /\ RefreshEnds(task)
    /\ UNCHANGED <<trainVars, storageVars, now, polls, lastArgs, runMin, pos0Seen, appended,
                   refreshGeneration, hidden, lastPoll, decoderVars, miscVars>>

(* getStationsNearPoint rejects: the catch block of refreshStations *)
StationsFailed ==
  \E task \in BagToSet(tasks) :
    /\ task.pc = "stationsFetch"
    /\ RefreshEnds(task)
    /\ UNCHANGED <<trackerVars, storageVars, now, ghostVars,
                   refreshGeneration, hidden, lastPoll, cacheVars, decoderVars, miscVars>>

NextApp ==
  \/ AppInit
  \/ SwitchLocation
  \/ RefreshButton
  \/ TimerFire
  \/ VisibilityChange
  \/ FetchResolved
  \/ FetchRejected
  \/ StationsDone
  \/ StationsFetched(FALSE)

SpecApp == Init /\ [][NextApp]_vars

----------------------------------------------------------------------------
(* Properties of the tracker *)

IsPoll == polls' = polls + 1

IdsOf(trains) == {trains[i].trainID : i \in 1..Len(trains)}

DistanceIn(trains, id) == (CHOOSE t \in {trains[i] : i \in 1..Len(trains)} : t.trainID = id).distance

(* C1: in every poll, a retained vehicle whose id was not in the previous
   poll's batch is neither approaching nor receding; one whose id was there is
   approaching iff its distance fell, receding iff it grew, and carries
   closestApproach exactly when receding, equal to its previous distance. *)
C1_MotionClassified ==
  [][IsPoll =>
      \A i \in 1..Len(nearbyTrains') :
        LET t == nearbyTrains'[i]
        IN  IF t.trainID \notin IdsOf(currentTrains)
            THEN /\ ~t.approaching
                 /\ ~t.receding
                 /\ "closestApproach" \notin DOMAIN t
            ELSE LET before == DistanceIn(currentTrains, t.trainID)
                 IN  /\ t.approaching <=> t.distance < before
                     /\ t.receding <=> t.distance > before
                     /\ ("closestApproach" \in DOMAIN t) <=> t.receding
                     /\ t.receding => t.closestApproach = before]_vars

(* a third poll has found a vehicle receding from its closest approach of 0 miles *)
C1_Witness ==
  /\ polls = 3
  /\ \E i \in 1..Len(nearbyTrains) :
       /\ nearbyTrains[i].receding
       /\ nearbyTrains[i].distance = 1
       /\ nearbyTrains[i].closestApproach = 0
       /\ \E h \in 1..Len(history) :
            history[h].trainID = nearbyTrains[i].trainID /\ history[h].sightings = 3

(* C3: the previous-distance table holds exactly the ids of the last batch,
   vehicles outside the radius included, each with the distance computed in
   that poll from the observer's position. *)
C3_TableReplaced ==
  /\ DOMAIN previousTrains = IdsOf(currentTrains)
  /\ \A i \in 1..Len(currentTrains) :
       /\ previousTrains[currentTrains[i].trainID] = currentTrains[i].distance
       /\ currentTrains[i].distance =
            haversineDistance(lastArgs.userLat, currentTrains[i].lat)

(* the table holds one vehicle, which is outside the radius, and a vehicle
   logged by an earlier poll has been dropped from it *)
C3_Witness ==
  /\ polls >= 2
  /\ \E id \in DOMAIN previousTrains :
       /\ DOMAIN previousTrains = {id}
       /\ previousTrains[id] > lastArgs.radius
  /\ \E h \in 1..Len(history) : history[h].trainID \notin DOMAIN previousTrains

Min(S) == CHOOSE x \in S : \A y \in S : x <= y

(* C4: session.closestDistance is the least distance seen at position 0 of a
   nearby list since the last reset (Infinity if none); a poll never raises
   it, and when a poll leaves it equal the holder is kept. *)
C4_SessionMinimum ==
  /\ [](session.closestDistance = IF pos0Seen = {} THEN Infinity ELSE Min(pos0Seen))
  /\ [][IsPoll =>
         /\ session'.closestDistance <= session.closestDistance
         /\ session'.closestDistance = session.closestDistance
              => session'.closestTrain = session.closestTrain]_vars

(* a later poll's closest vehicle ties the session minimum held by another vehicle *)
C4_Witness ==
  /\ closestTrain # Null
  /\ session.closestTrain # Null
  /\ closestTrain[1].distance = session.closestDistance
  /\ closestTrain[1].trainID # session.closestTrain[1].trainID

Bare(t) == [trainID |-> t.trainID, lat |-> t.lat, velocity |-> t.velocity,
            distance |-> t.distance]

(* C5: the nearby list holds exactly the records of the batch within the
   radius, in ascending order of distance, and the closest is its first
   element (null when it is empty). *)
C5_NearbySorted ==
  /\ {Bare(nearbyTrains[i]) : i \in 1..Len(nearbyTrains)} =
       {currentTrains[i] : i \in {j \in 1..Len(currentTrains) :
                                    currentTrains[j].distance <= lastArgs.radius}}
  /\ Len(nearbyTrains) =
       Cardinality({j \in 1..Len(currentTrains) :
                      currentTrains[j].distance <= lastArgs.radius})
  /\ \A i, j \in 1..Len(nearbyTrains) :
       i < j => nearbyTrains[i].distance <= nearbyTrains[j].distance
  /\ closestTrain = IF Len(nearbyTrains) = 0 THEN Null ELSE Some(nearbyTrains[1])

(* two vehicles are nearby, listed in the reverse of their batch order *)
C5_Witness ==
  /\ Len(nearbyTrains) = 2
  /\ Len(currentTrains) = 2
  /\ nearbyTrains[1].trainID = currentTrains[2].trainID
  /\ nearbyTrains[1].distance < nearbyTrains[2].distance

(* C6: a retained record's closestApproach is the least distance observed
   for its id over the current run of consecutive polls containing it. *)
C6_ClosestApproachIsRunMinimum ==
  \A i \in 1..Len(nearbyTrains) :
    "closestApproach" \in DOMAIN nearbyTrains[i]
      => nearbyTrains[i].closestApproach = runMin[nearbyTrains[i].trainID]

CountMoving(trains) == Cardinality({i \in 1..Len(trains) : trains[i].velocity > 0})

RECURSIVE SumMoving(_)
SumMoving(trains) ==
  IF trains = <<>> THEN 0
  ELSE (IF Head(trains).velocity > 0 THEN Head(trains).velocity ELSE 0)
         + SumMoving(Tail(trains))

(* C7: a poll adds to session.speedCount the number of retained records with
   speed > 0 and to session.totalSpeed the sum of their speeds; on a fresh
   session, retained records of speed 0 and 40 give an average of 40. *)
C7_StoppedExcluded ==
  [][IsPoll =>
      /\ session'.speedCount = session.speedCount + CountMoving(nearbyTrains')
      /\ session'.totalSpeed = session.totalSpeed + SumMoving(nearbyTrains')
      /\ (/\ session.speedCount = 0
          /\ session.totalSpeed = 0
          /\ Len(nearbyTrains') = 2
          /\ {nearbyTrains'[1].velocity, nearbyTrains'[2].velocity} = {0, 40})
           => getStats'.avgSpeed = Some(40)]_vars

(* the first poll of a session retained a stopped vehicle and one at 40 mph *)
C7_Witness ==
  /\ Len(nearbyTrains) = 2
  /\ {nearbyTrains[1].velocity, nearbyTrains[2].velocity} = {0, 40}
  /\ session.speedCount = 1
  /\ getStats.avgSpeed = Some(40)

(* C2: a poll raises session.spotted by one for each vehicle it logs for the
   first time today at the active location, and not at all for a repeat. *)
C2_SpottedCountsNewEntries ==
  [][IsPoll => session'.spotted = session.spotted + (Len(history') - Len(history))]_vars

----------------------------------------------------------------------------
(* Properties of the refresh loop *)

IsStart == refreshGeneration' = refreshGeneration + 1

(* C8: the session counters fall, the session minimum rises, or the
   previous-distance table is emptied without a poll, only in a step of
   App.start; a poll never lowers spotted, speedCount or totalSpeed; and
   right after App.start's resetSession the table is empty, the counters are
   0 and closestDistance is Infinity. *)
C8_ResetOnlyByStart ==
  /\ [][(\/ session'.spotted < session.spotted
         \/ session'.speedCount < session.speedCount
         \/ session'.totalSpeed < session.totalSpeed
         \/ session'.closestDistance > session.closestDistance
         \/ (previousTrains' = EmptyMap /\ previousTrains # EmptyMap /\ ~IsPoll))
          => IsStart]_vars
  /\ [][IsPoll =>
          /\ ~IsStart
          /\ session'.spotted >= session.spotted
          /\ session'.speedCount >= session.speedCount
          /\ session'.totalSpeed >= session.totalSpeed]_vars
  /\ [][IsStart =>
          /\ previousTrains' = EmptyMap
          /\ session'.spotted = 0
          /\ session'.speedCount = 0
          /\ session'.totalSpeed = 0
          /\ session'.closestDistance = Infinity]_vars

(* a location switch has reset a session that had measured speeds *)
C8_Witness ==
  /\ refreshGeneration = 2
  /\ polls >= 1
  /\ history # <<>>
  /\ session.speedCount = 0
  /\ session.closestDistance = Infinity
  /\ previousTrains = EmptyMap

(* C9: at most one App.refresh call is in flight at any time. *)
C9_OneRefreshInFlight == BagCardinality(tasks) <= 1

(* C10: whatever the tracker last processed (and logged) and the display last
   showed since the last App.start was computed by a refresh of the current
   generation: a refresh begun before the location change does neither. *)
C10_StaleRefreshDiscarded ==
  lastPoll # Null => lastPoll[1] = refreshGeneration

(* a refresh begun before the switch has just been discarded after its fetch,
   the new refresh is still fetching and nothing is shown yet *)
C10_Witness ==
  /\ refreshGeneration = 2
  /\ console = "discarding"
  /\ lastPoll = Null
  /\ ~isRefreshing
  /\ BagCardinality(tasks) = 1
  /\ \A t \in BagToSet(tasks) : t.gen = refreshGeneration /\ t.pc = "fetch"

----------------------------------------------------------------------------
(* MTAClient: the protobuf decoder (js/mta-client.js).
   A buffer is a sequence of bytes 0..255; the byte at offset o is dv[o + 1].
   A 32-bit integer is the set of the positions 0..31 of its one bits, so
   that |, << and >>> act on it as they act on an int32. *)

(* the longest buffer handed to readVarint *)
MaxBufferLen == 6

(* the powers of two below 2^31 *)
RECURSIVE Doubled(_)
Doubled(n) == IF n = 0 THEN <<1>> ELSE LET d == Doubled(n - 1) IN Append(d, 2 * d[n])

Powers == Doubled(30)

Pow2(n) == Powers[n + 1]

(* the only element of a set of one *)
TheOne(S) == CHOOSE x \in S : TRUE

(* the one bits of a byte *)
Bits(b) == {i \in 0..7 : (b \div Pow2(i)) % 2 = 1}

(* the number a set of bit positions stands for *)
RECURSIVE FromBits(_)
FromBits(w) ==
  IF w = {} THEN 0
  ELSE LET i == CHOOSE j \in w : TRUE IN Pow2(i) + FromBits(w \ {i})

(* b, with the continuation bit kept in the payload *)
Low8(b) == Bits(b)

(* b & 0x7f *)
Low7(b) == Bits(b) \cap 0..6

(* x << shift on an int32: the count is taken modulo 32, the bits pushed
   beyond position 31 are lost *)
ShiftLeft(w, shift) == {i + (shift % 32) : i \in w} \cap 0..31

(* the loop of readVarint, entered with the locals offset, result, shift, bytesRead *)
RECURSIVE VarintLoop(_, _, _, _, _)
VarintLoop(bytes, off, result, shift, bytesRead) ==
  IF off < Len(bytes)
  THEN LET b == bytes[off + 1]
           r == result \cup ShiftLeft(Low7(b), shift)
       IN  IF 7 \notin Bits(b)
           THEN [threw |-> "", value |-> r, bytesRead |-> bytesRead + 1]
           ELSE IF shift + 7 > 35
                THEN [threw |-> "Varint too long", value |-> {},
                      bytesRead |-> bytesRead + 1]
                ELSE VarintLoop(bytes, off + 1, r, shift + 7, bytesRead + 1)
  ELSE [threw |-> "", value |-> result, bytesRead |-> bytesRead]

(* readVarint(dv, offset): { value: result >>> 0, bytesRead }, or the error thrown *)
readVarint(bytes, off) == VarintLoop(bytes, off, {}, 0, 0)

(* the base-128 encoding of v, a set of bit positions: groups of 7 bits, the
   low group first, the high bit set on every byte but the last *)
Groups(v) == IF v = {} THEN 1 ELSE ((CHOOSE i \in v : \A j \in v : j <= i) \div 7) + 1

encode(v) ==
  [k \in 1..Groups(v) |->
     FromBits({i \in 0..6 : 7 * (k - 1) + i \in v})
       + (IF k < Groups(v) THEN 128 ELSE 0)]

(* the bytes the raw buffers are made of: a terminating byte, a full
   terminating byte, a continuation byte, a full continuation byte *)
VarintBytes == {1, 127, 128, 255}

RECURSIVE BuffersOfLen(_)
BuffersOfLen(n) ==
  IF n = 0 THEN {<<>>}
  ELSE {Append(b, x) : b \in BuffersOfLen(n - 1), x \in VarintBytes}

RawBuffers == UNION {BuffersOfLen(n) : n \in 0..MaxBufferLen}

(* the values encoded: one bit, two bits, and the low bits all set, up to 35 bits *)
Values ==
  {{}} \cup {{i} : i \in 0..34} \cup {{0, i} : i \in 1..34} \cup {0..i : i \in 1..34}

(* a raw buffer read at any offset, or the encoding of a value, read where it starts *)
InitVarint ==
  /\ Loaded
  /\ decoded = Null
  /\ mta = Null
  /\ \/ /\ dv \in RawBuffers
        /\ offset \in 0..Len(dv)
        /\ source = Null
     \/ \E v \in Values, before \in {<<>>, <<255>>}, after \in {<<>>, <<255>>} :
          /\ Groups(v) + Len(before) + Len(after) <= MaxBufferLen
          /\ dv = before \o encode(v) \o after
          /\ offset = Len(before)
          /\ source = Some(v)

ReadVarint ==
  /\ decoded = Null
  /\ decoded' = Some(readVarint(dv, offset))
  /\ UNCHANGED <<trackerVars, storageVars, now, appVars, miscVars, ghostVars, dv, offset, source, mta>>

NextVarint == ReadVarint

SpecVarint == InitVarint /\ [][NextVarint]_vars

(* C11: read on a buffer that ends before a byte with the high bit clear is
   found, at most 5 bytes on, readVarint fails with TruncatedVarint; and it
   reads no byte beyond the end of the buffer. *)
C11_TruncatedVarintFails ==
  decoded # Null =>
    /\ offset + decoded[1].bytesRead <= Len(dv)
    /\ ( /\ Len(dv) - offset <= 5
         /\ \A o \in offset..(Len(dv) - 1) : 7 \in Bits(dv[o + 1]) )
       => decoded[1].threw = "TruncatedVarint"

(* C12: readVarint never returns with more than 5 bytes read. *)
C12_NeverMoreThanFiveGroups ==
  (decoded # Null /\ decoded[1].threw = "") => decoded[1].bytesRead <= 5

(* C13 as stated: read on the encoding of a value of at most 5 groups,
   readVarint returns that value and the length of the encoding. *)
C13_RoundTrip ==
  (decoded # Null /\ source # Null) =>
    /\ decoded[1].threw = ""
    /\ decoded[1].value = source[1]
    /\ decoded[1].bytesRead = Len(encode(source[1]))

(* C13 amended: read on the encoding of a value of at most 5 groups,
   readVarint returns the low 32 bits of the value (the value itself when it
   is below 2^32) and the length of the encoding. *)
C13_RoundTrip32 ==
  (decoded # Null /\ source # Null) =>
    /\ decoded[1].threw = ""
    /\ decoded[1].value = source[1] \cap 0..31
    /\ decoded[1].bytesRead = Len(encode(source[1]))

C13_Witness ==
  /\ decoded # Null
  /\ source # Null
  /\ offset = 1
  /\ 31 \in source[1]
  /\ decoded[1].bytesRead = 5
  /\ decoded[1].value = source[1]

----------------------------------------------------------------------------
(* parseMessage and the field accessors *)

(* the most fields in one message handed to parseMessage *)
MaxFields == 3

(* x >>> 3 *)
ShiftRight3(w) == {i - 3 : i \in {j \in w : j >= 3}}

(* fields.get(fieldNum).push(field), after fields.set(fieldNum, []) when new *)
Push(fields, fieldNum, field) ==
  IF fieldNum \in DOMAIN fields
  THEN [fields EXCEPT ![fieldNum] = Append(@, field)]
  ELSE fields @@ (fieldNum :> <<field>>)

(* an unknown wire type empties the map *)
UnknownWireTypeDropsAll(fields) == [status |-> "ok", fields |-> EmptyMap]

(* else { break; } ... return fields *)
UnknownWireType(fields) == [status |-> "ok", fields |-> fields]

(* dv.getFloat64(pos, true), dv.getFloat32(pos, true): the bytes read stand
   for the number; past the end of the buffer the DataView throws *)
getFloat64(bytes, pos) == [f64 |-> SubSeq(bytes, pos + 1, pos + 8)]
getFloat32(bytes, pos) == [f32 |-> SubSeq(bytes, pos + 1, pos + 4)]

(* the offset after the last byte a read of n bytes at offset off has read: 0
   when it has read none *)
ReadTo(off, n) == IF n > 0 THEN off + n ELSE 0

Max(a, b) == IF a >= b THEN a ELSE b

(* one turn of the while loop of parseMessage, entered with the locals pos
   and fields: the loop goes on with new locals, or it is left (done) with
   the status "ok" at the break, the message of the error when one is thrown,
   and "hang" when it cannot end: at the end of the buffer readVarint reads
   no byte and yields the tag 0, a varint field that reads no byte either, so
   pos stays below end for ever while fields.get(0) grows.  reach is the
   offset after the last byte the turn has read from the buffer. *)
ParseField(bytes, pos, fields) ==
  LET tag == readVarint(bytes, pos)
      p == pos + tag.bytesRead
      tagTo == ReadTo(pos, tag.bytesRead)
      fieldNum == FromBits(ShiftRight3(tag.value))
      wireType == FromBits(tag.value \cap 0..2)
      Left(status, to) == [done |-> TRUE, status |-> status, pos |-> pos, fields |-> fields,
                           reach |-> Max(tagTo, to)]
      GoOn(q, value, to) == [done |-> FALSE, status |-> "ok", pos |-> q,
                             fields |-> Push(fields, fieldNum,
                                             [wireType |-> wireType, value |-> value]),
                             reach |-> Max(tagTo, to)]
  IN
    IF tag.threw # "" THEN Left(tag.threw, 0)
    ELSE IF wireType = 0 THEN
      LET v == readVarint(bytes, p) IN
      IF v.threw # "" THEN Left(v.threw, ReadTo(p, v.bytesRead))
      ELSE IF tag.bytesRead + v.bytesRead = 0 THEN Left("hang", 0)
      ELSE GoOn(p + v.bytesRead, v.value, ReadTo(p, v.bytesRead))
    ELSE IF wireType = 1 THEN
      IF p + 8 > Len(bytes) THEN Left("RangeError", 0)
      ELSE GoOn(p + 8, getFloat64(bytes, p), p + 8)
    ELSE IF wireType = 2 THEN
      LET len == readVarint(bytes, p)
          startPos == p + len.bytesRead
      IN
      IF len.threw # "" THEN Left(len.threw, ReadTo(p, len.bytesRead))
      ELSE GoOn(startPos + FromBits(len.value),
                [start |-> startPos, end |-> startPos + FromBits(len.value)],
                ReadTo(p, len.bytesRead))
    ELSE IF wireType = 5 THEN
      IF p + 4 > Len(bytes) THEN Left("RangeError", 0)
      ELSE GoOn(p + 4, getFloat32(bytes, p), p + 4)
    ELSE LET u == UnknownWireType(fields)
         IN  [done |-> TRUE, status |-> u.status, pos |-> pos, fields |-> u.fields,
              reach |-> tagTo]

(* the while loop of parseMessage *)
RECURSIVE ParseLoop(_, _, _, _, _)
ParseLoop(bytes, pos, end, fields, reach) ==
  IF ~(pos < end) THEN [status |-> "ok", fields |-> fields, reach |-> reach]
  ELSE TheOne({IF turn.done
               THEN [status |-> turn.status, fields |-> turn.fields,
                     reach |-> Max(reach, turn.reach)]
               ELSE ParseLoop(bytes, turn.pos, end, turn.fields, Max(reach, turn.reach)) :
                 turn \in {ParseField(bytes, pos, fields)}})

(* parseMessage(buffer, start, end) *)
parseMessage(bytes, startPos, end) == ParseLoop(bytes, startPos, end, EmptyMap, 0)

(* ---- the buffers handed to the decoder are built by these ---- *)

(* the one bits of a number below 2^31 *)
NatBits(n) == {i \in 0..30 : (n \div Pow2(i)) % 2 = 1}

EncVarint(n) == encode(NatBits(n))
EncTag(fieldNum, wireType) == EncVarint(8 * fieldNum + wireType)
EncBytes(fieldNum, payload) ==
  TheOne({EncTag(fieldNum, 2) \o EncVarint(Len(q)) \o q : q \in {payload}})

(* the i-th field of a message: field number num, wire type wt, a payload
   that tells the fields of one message apart *)
FieldPayload(wt, i) ==
  IF wt = 0 THEN EncVarint(200 + i)
  ELSE IF wt = 1 THEN <<0, 0, 0, 0, 0, 0, 64 + i, 64>>
  ELSE IF wt = 2 THEN <<1, 64 + i>>
  ELSE IF wt = 5 THEN <<0, 0, 64 + i, 65>>
  ELSE <<>>

EncField(f, i) == EncTag(f.num, f.wt) \o FieldPayload(f.wt, i)

RECURSIVE EncFields(_, _)
EncFields(fs, i) ==
  IF i > Len(fs) THEN <<>> ELSE EncField(fs[i], i) \o EncFields(fs, i + 1)

FieldKinds == [num : {1, 2}, wt : {0, 1, 2, 3, 5, 6}]

RECURSIVE FieldSeqs(_)
FieldSeqs(n) ==
  IF n = 0 THEN {<<>>}
  ELSE {Append(fs, f) : fs \in FieldSeqs(n - 1), f \in FieldKinds}

InitMessage ==
  /\ Loaded
  /\ decoded = Null
  /\ mta = Null
  /\ offset = 0
  /\ \E n \in 0..MaxFields : \E fs \in FieldSeqs(n) :
       /\ source = Some(fs)
       /\ dv = EncFields(fs, 1)

ParseMessage ==
  /\ decoded = Null
  /\ decoded' = Some(parseMessage(dv, offset, Len(dv)))
  /\ UNCHANGED <<trackerVars, storageVars, now, appVars, miscVars, ghostVars, dv, offset, source, mta>>

NextMessage == ParseMessage

SpecMessage == InitMessage /\ [][NextMessage]_vars

(* what a parsed field holds: the bytes of a span, the bits of a varint, the
   bytes of a fixed-width number *)
Held(bytes, field) ==
  IF field.wireType = 2 THEN SubSeq(bytes, field.value.start + 1, field.value.end)
  ELSE IF field.wireType = 0 THEN EncVarint(FromBits(field.value))
  ELSE IF field.wireType = 1 THEN field.value.f64
  ELSE field.value.f32

(* the first field of fs, from position i on, with a wire type other than 0, 1, 2, 5 *)
RECURSIVE FirstUnknown(_, _)
FirstUnknown(fs, i) ==
  IF i > Len(fs) \/ fs[i].wt \notin {0, 1, 2, 5} THEN i ELSE FirstUnknown(fs, i + 1)

(* the payloads of the fields numbered num among the first n of fs, in order *)
RECURSIVE PayloadsOf(_, _, _, _)
PayloadsOf(fs, num, i, n) ==
  IF i > n THEN <<>>
  ELSE (IF fs[i].num = num
        THEN <<[wireType |-> fs[i].wt,
                held |-> IF fs[i].wt = 2 THEN Tail(FieldPayload(2, i))
                         ELSE FieldPayload(fs[i].wt, i)]>>
        ELSE <<>>) \o PayloadsOf(fs, num, i + 1, n)

(* C14: parseMessage returns without an error, and the map it returns holds
   exactly the fields written before the first tag with a wire type other
   than 0, 1, 2, 5, each field number's values in their order of arrival. *)
C14_UnknownWireTypeEndsScope ==
  decoded # Null =>
    LET fs == source[1]
        n == FirstUnknown(fs, 1) - 1
        got == decoded[1].fields
    IN  /\ decoded[1].status = "ok"
        /\ DOMAIN got = {fs[i].num : i \in 1..n}
        /\ \A num \in DOMAIN got :
             [i \in 1..Len(got[num]) |->
                [wireType |-> got[num][i].wireType, held |-> Held(dv, got[num][i])]]
               = PayloadsOf(fs, num, 1, n)

C14_Witness ==
  /\ decoded # Null
  /\ Len(source[1]) = 3
  /\ source[1][1].num = 1 /\ source[1][1].wt = 0
  /\ source[1][2].wt = 3
  /\ source[1][3].wt = 2
  /\ decoded[1].status = "ok"
  /\ DOMAIN decoded[1].fields = {1}
  /\ Len(decoded[1].fields[1]) = 1

----------------------------------------------------------------------------
(* parseFeed.  A number read from a field is kept as [kind, rep]: the bits
   of a varint or the bytes of a float; a string is the sequence of its
   character codes. *)

(* the Map entry m.get(n), and its first value m.get(n)[0] *)
FirstOf(fields, n) == IF n \in DOMAIN fields THEN Some(fields[n][1]) ELSE Null

(* the number 0 *)
Zero == [kind |-> "int", rep |-> {}]

(* x === 0: both float zeros are equal to 0 *)
IsZero(x) ==
  IF x.kind = "int" THEN x.rep = {}
  ELSE IF x.kind = "f32" THEN x.rep \in {<<0, 0, 0, 0>>, <<0, 0, 0, 128>>}
  ELSE x.rep \in {<<0, 0, 0, 0, 0, 0, 0, 0>>, <<0, 0, 0, 0, 0, 0, 0, 128>>}

(* new TextDecoder().decode(bytes): ASCII bytes are their characters; a byte
   from 128 on is shown as the replacement character *)
TextDecode(bs) == [i \in 1..Len(bs) |-> IF bs[i] < 128 THEN bs[i] ELSE 65533]

(* getString(field): '' for no field or another wire type; the Uint8Array
   view throws when the span runs past the end of the buffer *)
getString(bytes, field) ==
  IF field = Null \/ field[1].wireType # 2 THEN [status |-> "ok", value |-> <<>>]
  ELSE IF field[1].value.end > Len(bytes) THEN [status |-> "RangeError", value |-> <<>>]
  ELSE [status |-> "ok",
        value |-> TextDecode(SubSeq(bytes, field[1].value.start + 1, field[1].value.end))]

(* getFloat(field) *)
getFloat(field) ==
  IF field = Null THEN Zero
  ELSE IF field[1].wireType = 5 THEN [kind |-> "f32", rep |-> field[1].value.f32]
  ELSE IF field[1].wireType = 1 THEN [kind |-> "f64", rep |-> field[1].value.f64]
  ELSE IF field[1].wireType = 0 THEN [kind |-> "int", rep |-> field[1].value]
  ELSE Zero

(* getSubMessage(field): status "null" for no field or another wire type *)
getSubMessage(bytes, field) ==
  IF field = Null \/ field[1].wireType # 2
  THEN [status |-> "null", fields |-> EmptyMap, reach |-> 0]
  ELSE parseMessage(bytes, field[1].value.start, field[1].value.end)

(* the position looked up at the standard field number only *)
PositionStandardOnly(vp) == FirstOf(vp, 3)

(* let posField = vp.get(3); if (!posField) posField = vp.get(2); ... posField[0] *)
PositionField(vp) == IF 3 \in DOMAIN vp THEN FirstOf(vp, 3) ELSE FirstOf(vp, 2)

(* entries skipped when either coordinate is 0 *)
NoGpsEither(lat, lon) == IsZero(lat) \/ IsZero(lon)

(* lat === 0 && lon === 0 *)
NoGps(lat, lon) == IsZero(lat) /\ IsZero(lon)

(* an embedded message read for two of its strings: the trip descriptor
   (trip_id 1, route_id 3) and the vehicle descriptor (id 1, label 2) *)
TwoStrings(bytes, field, a, b) ==
  TheOne({
    IF field = Null \/ m.status = "null"
    THEN [status |-> "ok", first |-> <<>>, second |-> <<>>]
    ELSE IF m.status # "ok" THEN [status |-> m.status, first |-> <<>>, second |-> <<>>]
    ELSE LET x == getString(bytes, FirstOf(m.fields, a))
             y == getString(bytes, FirstOf(m.fields, b))
         IN  IF x.status # "ok" THEN [status |-> x.status, first |-> <<>>, second |-> <<>>]
             ELSE [status |-> y.status, first |-> x.value, second |-> y.value] :
      m \in {getSubMessage(bytes, field)}})

(* the body of the loop over the entities, for a vehicle position vp whose
   position sub-message pos is read: from the position fields to vehicles.push *)
VehicleOf(bytes, entityId, vp, pos) ==
  LET lat == getFloat(FirstOf(pos, 1))
      lon == getFloat(FirstOf(pos, 2))
  IN  IF NoGps(lat, lon) THEN [status |-> "skip"]
      ELSE TheOne({
        IF trip.status # "ok" THEN [status |-> trip.status]
        ELSE IF veh.status # "ok" THEN [status |-> veh.status]
        ELSE IF stopId.status # "ok" THEN [status |-> stopId.status]
        ELSE [status |-> "ok",
              vehicle |->
                [entityId |-> entityId,
                 lat |-> lat,
                 lon |-> lon,
                 bearing |-> IF 3 \in DOMAIN pos THEN Some(getFloat(FirstOf(pos, 3))) ELSE Null,
                 speedMph |-> [mps |-> getFloat(FirstOf(pos, 4))],   \* speedMs * 2.23694
                 tripId |-> trip.first,
                 routeId |-> trip.second,
                 vehicleId |-> veh.first,
                 vehicleLabel |-> veh.second,
                 stopId |-> stopId.value,
                 currentStatus |-> IF 4 \in DOMAIN vp THEN vp[4][1]
                                   ELSE [wireType |-> 0, value |-> {1}],   \* 2
                 timestamp |-> IF 5 \in DOMAIN vp THEN vp[5][1]
                               ELSE [wireType |-> 0, value |-> {}]]] :     \* 0
          trip \in {TwoStrings(bytes, FirstOf(vp, 1), 1, 3)},
          veh \in {TwoStrings(bytes, FirstOf(vp, 8), 1, 2)},
          stopId \in {getString(bytes, IF 7 \in DOMAIN vp THEN FirstOf(vp, 7)
                                       ELSE FirstOf(vp, 5))}})

(* the body of the loop over the entities, for the vehicle position vp read:
   the position sub-message is looked up and read *)
PositionOf(bytes, entityId, vp) ==
  TheOne({
    IF pos.status = "null" THEN [status |-> "skip"]
    ELSE IF pos.status # "ok" THEN [status |-> pos.status]
    ELSE VehicleOf(bytes, entityId, vp, pos.fields) :
      pos \in {getSubMessage(bytes, PositionField(vp))}})

(* the body of the loop over the entities: "skip" for continue, "ok" with the
   vehicle pushed, or the error thrown *)
parseEntity(bytes, entityField) ==
  TheOne({
    IF entity.status = "null" THEN [status |-> "skip"]
    ELSE IF entity.status # "ok" THEN [status |-> entity.status]
    ELSE TheOne({
      IF entityId.status # "ok" THEN [status |-> entityId.status]
      ELSE IF vp.status = "null" THEN [status |-> "skip"]
      ELSE IF vp.status # "ok" THEN [status |-> vp.status]
      ELSE PositionOf(bytes, entityId.value, vp.fields) :
        entityId \in {getString(bytes, FirstOf(entity.fields, 1))},
        vp \in {getSubMessage(bytes, FirstOf(entity.fields, 4))}}) :
      entity \in {getSubMessage(bytes, Some(entityField))}})

RECURSIVE EntityLoop(_, _, _, _)
EntityLoop(bytes, entities, i, vehicles) ==
  IF i > Len(entities) THEN [status |-> "ok", vehicles |-> vehicles]
  ELSE TheOne({IF e.status = "skip" THEN EntityLoop(bytes, entities, i + 1, vehicles)
               ELSE IF e.status = "ok"
                    THEN EntityLoop(bytes, entities, i + 1, Append(vehicles, e.vehicle))
                    ELSE [status |-> e.status, vehicles |-> <<>>] :
                 e \in {parseEntity(bytes, entities[i])}})

(* parseFeed(arrayBuffer): the vehicles, or the error thrown, or "hang" *)
parseFeed(bytes) ==
  LET feedMsg == parseMessage(bytes, 0, Len(bytes))
  IN  IF feedMsg.status # "ok" THEN [status |-> feedMsg.status, vehicles |-> <<>>]
      ELSE EntityLoop(bytes, IF 2 \in DOMAIN feedMsg.fields THEN feedMsg.fields[2] ELSE <<>>,
                      1, <<>>)

----------------------------------------------------------------------------
(* normalizeVehicle *)

(* code === n, for the value of a field as parseMessage stored it: a varint,
   or a float whose bytes are those of n *)
NumberIs(field, n) ==
  IF field.wireType = 0 THEN field.value = NatBits(n)
  ELSE IF field.wireType = 5
       THEN IF n = 0 THEN field.value.f32 \in {<<0, 0, 0, 0>>, <<0, 0, 0, 128>>}
            ELSE field.value.f32 = (IF n = 1 THEN <<0, 0, 128, 63>> ELSE <<0, 0, 0, 64>>)
  ELSE IF field.wireType = 1
       THEN IF n = 0 THEN field.value.f64 \in {<<0, 0, 0, 0, 0, 0, 0, 0>>,
                                               <<0, 0, 0, 0, 0, 0, 0, 128>>}
            ELSE field.value.f64 = (IF n = 1 THEN <<0, 0, 0, 0, 0, 0, 240, 63>>
                                    ELSE <<0, 0, 0, 0, 0, 0, 0, 64>>)
  ELSE FALSE

(* statusText(code) *)
statusText(code) ==
  IF NumberIs(code, 0) THEN "Arriving"
  ELSE IF NumberIs(code, 1) THEN "At Station"
  ELSE IF NumberIs(code, 2) THEN "In Transit"
  ELSE "Active"

(* str.split('_')[0]: the characters before the first '_' *)
RECURSIVE BeforeUnderscore(_)
BeforeUnderscore(str) ==
  IF str = <<>> \/ Head(str) = 95 THEN <<>> ELSE <<Head(str)>> \o BeforeUnderscore(Tail(str))

(* a || b on strings: the empty string is falsy *)
OrElse(a, b) == IF a # <<>> THEN a ELSE b

(* the characters of 'mta-', of '-' and of the source names *)
MtaDash == <<109, 116, 97, 45>>
Dash == <<45>>
SourceName(feedName) ==
  IF feedName = "lirr" THEN <<108, 105, 114, 114>>
  ELSE <<109, 101, 116, 114, 111, 78, 111, 114, 116, 104>>

(* an id made of the entity id alone *)
TrainIDEntityOnly(feedName, entityId) == MtaDash \o entityId

(* `mta-${source}-${v.entityId}` *)
TrainID(feedName, entityId) == MtaDash \o SourceName(feedName) \o Dash \o entityId

(* the chain without the trip id *)
TrainNumSkipsTrip(v) == OrElse(v.vehicleLabel, OrElse(v.vehicleId, v.entityId))

(* v.vehicleLabel || v.vehicleId || v.tripId.split('_')[0] || v.entityId *)
TrainNum(v) ==
  OrElse(v.vehicleLabel,
    OrElse(v.vehicleId, OrElse(BeforeUnderscore(v.tripId), v.entityId)))

(* normalizeVehicle(v, source); the heading and the velocity are kept as the
   numbers degreesToHeading and Math.round are applied to *)
normalizeVehicle(v, feedName) ==
  [trainID |-> TrainID(feedName, v.entityId),
   trainNum |-> TrainNum(v),
   routeName |-> IF feedName = "lirr" THEN "LIRR" ELSE "Metro-North",
   lat |-> v.lat,
   lon |-> v.lon,
   velocity |-> [round |-> v.speedMph],
   heading |-> IF v.bearing # Null THEN [degreesToHeading |-> v.bearing] ELSE [none |-> ""],
   provider |-> IF feedName = "lirr" THEN "LIRR" ELSE "Metro-North",
   origName |-> <<>>,
   destName |-> OrElse(v.stopId, <<>>),
   trainState |-> statusText(v.currentStatus),
   iconColor |-> "#0039A6",
   trainTimely |-> IF NumberIs(v.currentStatus, 2) THEN "In Transit" ELSE "At Station",
   stations |-> <<>>,
   mtaSource |-> feedName]

(* vehicles.map(v => this.normalizeVehicle(v, source)) *)
Normalized(vehicles, feedName) ==
  [k \in 1..Len(vehicles) |-> normalizeVehicle(vehicles[k], feedName)]

----------------------------------------------------------------------------
(* The feeds decoded: a FeedMessage of a header and up to MaxEntities entities *)

MaxEntities == 2

(* where an entity carries its position, and what its coordinates are *)
Placements == {"std", "alt", "both"}
Coordinates == {<<"some", "some">>, <<"zero", "some">>, <<"some", "zero">>,
                <<"zero", "zero">>, <<"absent", "absent">>}

EntityKinds ==
  {[pos |-> p, lat |-> c[1], lon |-> c[2], stop |-> FALSE] : p \in Placements, c \in Coordinates}
  \cup {[pos |-> p, lat |-> c, lon |-> c, stop |-> TRUE] : p \in {"alt"}, c \in {"some", "zero"}}
  \cup {[pos |-> p, lat |-> "some", lon |-> "some", stop |-> FALSE] : p \in {"none", "novehicle"}}

RECURSIVE FeedsOfLen(_)
FeedsOfLen(n) ==
  IF n = 0 THEN {<<>>}
  ELSE {Append(f, e) : f \in FeedsOfLen(n - 1), e \in EntityKinds}

(* the numbers and strings of the i-th entity *)
LatOf(c, i) == IF c = "zero" THEN <<0, 0, 0, 0>> ELSE <<0, 0, 32 + i, 66>>
LonOf(c, i) == IF c = "zero" THEN <<0, 0, 0, 0>> ELSE <<0, 0, 148 - i, 194>>
BearingOf(i) == <<0, 0, i, 67>>
SpeedOf(i) == <<0, 0, 0, 0, 0, 0, 48 + i, 64>>
IdOf(i) == <<101, 48 + i>>

EncPosition(e, i) ==
  (IF e.lat = "absent" THEN <<>> ELSE EncTag(1, 5) \o LatOf(e.lat, i))
    \o (IF e.lon = "absent" THEN <<>> ELSE EncTag(2, 5) \o LonOf(e.lon, i))
    \o EncTag(3, 5) \o BearingOf(i)
    \o EncTag(4, 1) \o SpeedOf(i)

(* another embedded message at the alternate field number *)
Decoy == EncTag(1, 5) \o <<0, 0, 99, 66>> \o EncTag(2, 5) \o <<0, 0, 99, 194>>

EncVehicle(e, i) ==
  EncBytes(1, EncBytes(1, <<84, 48 + i>>) \o EncBytes(3, <<82>>))
    \o (IF e.pos = "std" THEN EncBytes(3, EncPosition(e, i))
        ELSE IF e.pos = "alt" THEN EncBytes(2, EncPosition(e, i))
        ELSE IF e.pos = "both" THEN EncBytes(2, Decoy) \o EncBytes(3, EncPosition(e, i))
        ELSE <<>>)
    \o EncTag(4, 0) \o EncVarint(1)
    \o EncTag(5, 0) \o EncVarint(1000 + i)
    \o (IF e.stop THEN EncBytes(7, <<83, 48 + i>>) ELSE <<>>)
    \o EncBytes(8, EncBytes(1, <<86, 48 + i>>) \o EncBytes(2, <<76, 48 + i>>))

EncEntity(e, i) ==
  EncBytes(2, EncBytes(1, IdOf(i))
                \o (IF e.pos = "novehicle" THEN EncBytes(3, <<8, 1>>)
                    ELSE EncBytes(4, EncVehicle(e, i))))

RECURSIVE EncEntities(_, _)
EncEntities(feed, i) ==
  IF i > Len(feed) THEN <<>> ELSE EncEntity(feed[i], i) \o EncEntities(feed, i + 1)

EncFeed(feed) == EncBytes(1, <<10, 3, 50, 46, 48>>) \o EncEntities(feed, 1)

InitFeed ==
  /\ Loaded
  /\ decoded = Null
  /\ mta = Null
  /\ offset = 0
  /\ \E n \in 0..MaxEntities : \E feed \in FeedsOfLen(n) :
       /\ source = Some(feed)
       /\ dv = EncFeed(feed)

(* fetchFeed once the response is there: parseFeed(buffer), then the map of
   normalizeVehicle over its vehicles *)
DecodeFeed ==
  /\ decoded = Null
  /\ \E r \in {parseFeed(dv)} :
       decoded' = Some([status |-> r.status, vehicles |-> r.vehicles,
                        trains |-> Normalized(r.vehicles, "lirr")])
  /\ UNCHANGED <<trackerVars, storageVars, now, appVars, miscVars, ghostVars, dv, offset, source, mta>>

NextFeed == DecodeFeed

SpecFeed == InitFeed /\ [][NextFeed]_vars

(* the entities of a feed that carry a vehicle position with a position
   sub-message whose coordinates are not both 0 or absent, in feed order *)
RECURSIVE KeptFrom(_, _)
KeptFrom(feed, i) ==
  IF i > Len(feed) THEN <<>>
  ELSE (IF feed[i].pos \in Placements /\ "some" \in {feed[i].lat, feed[i].lon}
        THEN <<i>> ELSE <<>>) \o KeptFrom(feed, i + 1)

(* C17: every entity with its position at the standard field number (3), or
   at the alternate one (2) with nothing at 3, is decoded with the latitude,
   longitude, bearing and speed written in that position; with a message at
   both numbers, the one at 3 is used. *)
C17_TolerantFieldResolution ==
  decoded # Null =>
    LET feed == source[1]
        kept == KeptFrom(feed, 1)
        vehicles == decoded[1].vehicles
    IN  /\ decoded[1].status = "ok"
        /\ \A k \in 1..Len(kept) :
             LET i == kept[k] IN
             /\ k <= Len(vehicles)
             /\ vehicles[k].entityId = IdOf(i)
             /\ vehicles[k].lat = (IF feed[i].lat = "absent" THEN Zero
                                   ELSE [kind |-> "f32", rep |-> LatOf(feed[i].lat, i)])
             /\ vehicles[k].lon = (IF feed[i].lon = "absent" THEN Zero
                                   ELSE [kind |-> "f32", rep |-> LonOf(feed[i].lon, i)])
             /\ vehicles[k].bearing = Some([kind |-> "f32", rep |-> BearingOf(i)])
             /\ vehicles[k].speedMph = [mps |-> [kind |-> "f64", rep |-> SpeedOf(i)]]

C17_Witness ==
  /\ decoded # Null
  /\ Len(source[1]) = 2
  /\ source[1][1].pos = "alt" /\ source[1][1].lat = "some" /\ source[1][1].lon = "some"
  /\ source[1][2].pos = "both" /\ source[1][2].lat = "some" /\ source[1][2].lon = "zero"
  /\ Len(decoded[1].vehicles) = 2
  /\ decoded[1].vehicles[1].lat.rep = LatOf("some", 1)
  /\ decoded[1].vehicles[2].lat.rep = LatOf("some", 2)

(* C18: the output of parseFeed holds, in the order of the buffer, exactly
   the entities that carry a vehicle position with a position sub-message and
   whose latitude and longitude are not both 0 (or absent). *)
C18_ZeroCoordinateFilter ==
  decoded # Null =>
    LET kept == KeptFrom(source[1], 1)
        vehicles == decoded[1].vehicles
    IN  /\ decoded[1].status = "ok"
        /\ [k \in 1..Len(vehicles) |-> vehicles[k].entityId]
             = [k \in 1..Len(kept) |-> IdOf(kept[k])]

C18_Witness ==
  /\ decoded # Null
  /\ Len(source[1]) = 2
  /\ source[1][1].pos = "alt" /\ source[1][1].lat = "zero" /\ source[1][1].lon = "zero"
  /\ source[1][1].stop
  /\ source[1][2].pos = "std" /\ source[1][2].lat = "zero" /\ source[1][2].lon = "some"
  /\ Len(decoded[1].vehicles) = 1
  /\ decoded[1].vehicles[1].entityId = IdOf(2)

(* C20: every record normalizeVehicle makes has an empty origin name and an
   empty destination name. *)
C20_NoOriginNoDestination ==
  decoded # Null =>
    \A k \in 1..Len(decoded[1].trains) :
      /\ decoded[1].trains[k].origName = <<>>
      /\ decoded[1].trains[k].destName = <<>>

----------------------------------------------------------------------------
(* Feeds with one malformed entity among well-formed ones *)

(* an unsupported wire type before the vehicle position; a varint of seven
   bytes; a 32-bit field with two bytes left in the entity; an entity whose
   length prefix tells five bytes more than it has *)
Malformations == {"unknownWire", "longVarint", "shortFloat", "shortEntity"}

GoodKinds ==
  {[pos |-> "alt", lat |-> "some", lon |-> "some", stop |-> FALSE],
   [pos |-> "std", lat |-> "some", lon |-> "some", stop |-> FALSE],
   [pos |-> "std", lat |-> "zero", lon |-> "some", stop |-> FALSE],
   [pos |-> "alt", lat |-> "zero", lon |-> "zero", stop |-> FALSE]}

RECURSIVE GoodFeedsOfLen(_)
GoodFeedsOfLen(n) ==
  IF n = 0 THEN {<<>>}
  ELSE {Append(f, e) : f \in GoodFeedsOfLen(n - 1), e \in GoodKinds}

VehiclePart(i) ==
  EncBytes(4, EncVehicle([pos |-> "alt", lat |-> "some", lon |-> "some", stop |-> FALSE], i))

EncMalformed(kind, i) ==
  IF kind = "unknownWire"
  THEN EncBytes(2, EncBytes(1, IdOf(i)) \o EncTag(9, 3) \o VehiclePart(i))
  ELSE IF kind = "longVarint"
  THEN EncBytes(2, EncBytes(1, IdOf(i)) \o EncTag(5, 0) \o <<255, 255, 255, 255, 255, 255, 1>>)
  ELSE IF kind = "shortFloat"
  THEN EncBytes(2, EncBytes(1, IdOf(i)) \o EncTag(6, 5) \o <<0, 0>>)
  ELSE EncTag(2, 2) \o EncVarint(Len(EncBytes(1, IdOf(i)) \o VehiclePart(i)) + 5)
         \o EncBytes(1, IdOf(i)) \o VehiclePart(i)

RECURSIVE EncMixed(_, _)
EncMixed(feed, i) ==
  IF i > Len(feed) THEN <<>>
  ELSE (IF feed[i].pos \in Malformations THEN EncMalformed(feed[i].pos, i)
        ELSE EncEntity(feed[i], i)) \o EncMixed(feed, i + 1)

(* feed with the entity e put in as its j-th *)
InsertAt(feed, j, e) == SubSeq(feed, 1, j - 1) \o <<e>> \o SubSeq(feed, j, Len(feed))

InitMalformed ==
  /\ Loaded
  /\ decoded = Null
  /\ mta = Null
  /\ offset = 0
  /\ \E n \in 0..MaxEntities : \E feed \in GoodFeedsOfLen(n) :
       \E j \in 1..(n + 1), kind \in Malformations :
         LET mixed == InsertAt(feed, j, [pos |-> kind, lat |-> "some", lon |-> "some",
                                         stop |-> FALSE])
         IN  /\ source = Some(mixed)
             /\ dv = EncBytes(1, <<10, 3, 50, 46, 48>>) \o EncMixed(mixed, 1)

NextMalformed == DecodeFeed

SpecMalformed == InitMalformed /\ [][NextMalformed]_vars

(* C16: with one malformed entity in the buffer, parseFeed returns, and its
   output holds every other entity that is well-formed and whose coordinates
   are not both 0. *)
C16_MalformedEntityIsolated ==
  decoded # Null =>
    LET kept == KeptFrom(source[1], 1)
        vehicles == decoded[1].vehicles
    IN  /\ decoded[1].status = "ok"
        /\ \A k \in 1..Len(kept) :
             \E m \in 1..Len(vehicles) : vehicles[m].entityId = IdOf(kept[k])

----------------------------------------------------------------------------
(* AmtrakerClient.getTrainsFlat (js/amtraker.js): the JSON source.  A
   coordinate of a JSON record is Null when the property is absent and
   Some(n) for the number n. *)

(* a number is truthy unless it is 0; undefined is falsy *)
TruthyNumber(c) == c # Null /\ c[1] # 0

(* (t.provider || '').toLowerCase() *)
LowerCase(provider) ==
  IF provider = "Amtrak" THEN "amtrak"
  ELSE IF provider = "Via" THEN "via"
  ELSE IF provider = "Brightline" THEN "brightline"
  ELSE provider

(* flattenTrains(trainsData): the arrays of the object, one after the other *)
RECURSIVE flattenTrains(_)
flattenTrains(trainsData) ==
  IF trainsData = <<>> THEN <<>> ELSE Head(trainsData) \o flattenTrains(Tail(trainsData))

(* the provider filter of getTrainsFlat *)
ProviderAllowed(t, providerFilter) ==
  LET provider == LowerCase(t.provider)
  IN  ~ \/ (provider = "amtrak" /\ ~providerFilter.amtrak)
        \/ (provider = "via" /\ ~providerFilter.via)
        \/ (provider = "brightline" /\ ~providerFilter.brightline)

(* t.lat && t.lon && t.lat !== 0 && t.lon !== 0 *)
ValidCoordinates(t) ==
  /\ TruthyNumber(t.lat)
  /\ TruthyNumber(t.lon)
  /\ t.lat # Some(0)
  /\ t.lon # Some(0)

RECURSIVE Filter(_, _, _)
Filter(trains, providerFilter, coordinates) ==
  IF trains = <<>> THEN <<>>
  ELSE (IF /\ (providerFilter = Null \/ ProviderAllowed(Head(trains), providerFilter[1]))
           /\ (~coordinates \/ ValidCoordinates(Head(trains)))
        THEN <<Head(trains)>> ELSE <<>>)
         \o Filter(Tail(trains), providerFilter, coordinates)

(* getTrainsFlat(providerFilter), on the answer data of getAllTrains *)
getTrainsFlat(data, providerFilter) == Filter(flattenTrains(data), providerFilter, TRUE)

JsonCoordinates == {Null, Some(0), Some(5)}
JsonTrains == [provider : {"Amtrak", "Via"}, lat : JsonCoordinates, lon : JsonCoordinates]

(* the object the API answers: no train, one, two under two train numbers,
   two under one train number *)
JsonAnswers ==
  {<<>>} \cup {<<<<a>>>> : a \in JsonTrains}
         \cup {<<<<a>>, <<b>>>> : a \in JsonTrains, b \in JsonTrains}
         \cup {<<<<a, b>>>> : a \in JsonTrains, b \in JsonTrains}

ProviderFilters ==
  {Null, Some([amtrak |-> TRUE, via |-> TRUE, brightline |-> TRUE]),
         Some([amtrak |-> TRUE, via |-> FALSE, brightline |-> TRUE])}

InitJson ==
  /\ Loaded
  /\ decoded = Null
  /\ mta = Null
  /\ offset = 0
  /\ dv = <<>>
  /\ \E data \in JsonAnswers, providerFilter \in ProviderFilters :
       source = Some([data |-> data, providerFilter |-> providerFilter])

GetTrainsFlat ==
  /\ decoded = Null
  /\ decoded' = Some(getTrainsFlat(source[1].data, source[1].providerFilter))
  /\ UNCHANGED <<trackerVars, storageVars, now, appVars, miscVars, ghostVars, dv, offset, source, mta>>

NextJson == GetTrainsFlat

SpecJson == InitJson /\ [][NextJson]_vars

(* the number of a JSON coordinate as the decoder of the binary feed holds
   it, an absent one being 0 there *)
AsDecoded(c) == IF c = Null THEN Zero ELSE [kind |-> "int", rep |-> NatBits(c[1])]

RECURSIVE DropNoGps(_)
DropNoGps(trains) ==
  IF trains = <<>> THEN <<>>
  ELSE (IF NoGps(AsDecoded(Head(trains).lat), AsDecoded(Head(trains).lon))
        THEN <<>> ELSE <<Head(trains)>>) \o DropNoGps(Tail(trains))

(* C19: getTrainsFlat drops, of the records the provider filter lets through,
   exactly those the binary decoder's rule drops: latitude and longitude both
   0; a record with one coordinate 0 is kept. *)
C19_SameCoordinateFilter ==
  decoded # Null =>
    decoded[1] = DropNoGps(Filter(flattenTrains(source[1].data),
                                  source[1].providerFilter, FALSE))

----------------------------------------------------------------------------
(* MTAClient.getAllTrains and fetchFeed.  A step is one run of JavaScript
   between two awaits.  mta.pc is "idle" before the first call, "waiting"
   while Promise.all waits for the fetchFeed calls, "resolved" once
   getAllTrains has returned, and "hung" when parseFeed does not return: the
   one thread stays in its loop and nothing else runs any more. *)

(* the most calls of getAllTrains *)
MaxFetches == 2

FeedNames == <<"lirr", "metroNorth">>

(* the feed as described, in bytes *)
FeedBytes(feed) == EncBytes(1, <<10, 3, 50, 46, 48>>) \o EncMixed(feed, 1)

(* what a feed answers: no entity, one vehicle, or one vehicle followed by a
   malformed entity *)
MtaFeeds ==
  LET good == [pos |-> "alt", lat |-> "some", lon |-> "some", stop |-> FALSE]
  IN  {<<>>, <<good>>}
        \cup {<<good, [pos |-> kind, lat |-> "some", lon |-> "some", stop |-> FALSE]>> :
                kind \in {"longVarint", "shortFloat", "shortEntity"}}

NotCalled == [pc |-> "none", outcome |-> "", value |-> <<>>]

InitMta ==
  /\ Loaded
  /\ decoded = Null
  /\ source = Null
  /\ offset = 0
  /\ dv = <<>>
  /\ mta = [pc |-> "idle", filter |-> {},
            feed |-> [s \in {"lirr", "metroNorth"} |-> NotCalled],
            result |-> <<>>, calls |-> 0,
            fetched |-> [s \in {"lirr", "metroNorth"} |-> 0]]

(* getAllTrains(providerFilter) up to await Promise.all(promises): a
   fetchFeed call for every feed the filter enables, each at its await fetch(url) *)
GetAllTrains ==
  /\ mta.pc \in {"idle", "resolved"}
  /\ mta.calls < MaxFetches
  /\ \E filter \in {{"lirr", "metroNorth"}, {"lirr"}, {"metroNorth"}} :
       mta' = [pc |-> "waiting", filter |-> filter,
               feed |-> [s \in {"lirr", "metroNorth"} |->
                           IF s \in filter THEN [pc |-> "fetch", outcome |-> "", value |-> <<>>]
                           ELSE NotCalled],
               result |-> <<>>, calls |-> mta.calls + 1,
               fetched |-> [s \in {"lirr", "metroNorth"} |->
                              mta.fetched[s] + (IF s \in filter THEN 1 ELSE 0)]]
  /\ UNCHANGED <<trackerVars, storageVars, now, appVars, miscVars, ghostVars, dv, offset, source, decoded>>

(* fetchFeed after await fetch(url): the fetch failed (catch: return []), the
   response is not ok (return []), or it is ok and its body is awaited *)
FetchAnswered ==
  /\ mta.pc = "waiting"
  /\ \E s \in mta.filter, answer \in {"network", "http", "ok"} :
       /\ mta.feed[s].pc = "fetch"
       /\ mta' = [mta EXCEPT !.feed[s] =
                    IF answer = "ok" THEN [pc |-> "body", outcome |-> "", value |-> <<>>]
                    ELSE [pc |-> "done", outcome |-> answer, value |-> <<>>]]
  /\ UNCHANGED <<trackerVars, storageVars, now, appVars, miscVars, ghostVars, dv, offset, source, decoded>>

(* fetchFeed after await response.arrayBuffer(): parseFeed(buffer) and the
   map of normalizeVehicle, or catch: return [] for an error thrown *)
BodyRead ==
  /\ mta.pc = "waiting"
  /\ \E s \in mta.filter, feed \in MtaFeeds : \E r \in {parseFeed(FeedBytes(feed))} :
       /\ mta.feed[s].pc = "body"
       /\ dv' = FeedBytes(feed)
       /\ source' = Some(feed)
       /\ mta' = IF r.status = "ok"
                 THEN [mta EXCEPT !.feed[s] = [pc |-> "done", outcome |-> "decoded",
                                               value |-> Normalized(r.vehicles, s)]]
                 ELSE IF r.status = "hang"
                 THEN [mta EXCEPT !.pc = "hung",
                                  !.feed[s] = [pc |-> "hung", outcome |-> "undecodable",
                                               value |-> <<>>]]
                 ELSE [mta EXCEPT !.feed[s] = [pc |-> "done", outcome |-> "undecodable",
                                               value |-> <<>>]]
  /\ UNCHANGED <<trackerVars, storageVars, now, appVars, miscVars, ghostVars, offset, decoded>>

(* results.flat(): the lists of the feeds called, lirr first *)
RECURSIVE Flat(_, _)
Flat(feed, i) ==
  IF i > Len(FeedNames) THEN <<>>
  ELSE (IF feed[FeedNames[i]].pc = "none" THEN <<>> ELSE feed[FeedNames[i]].value)
         \o Flat(feed, i + 1)

(* every fetchFeed call has returned: getAllTrains returns results.flat() *)
AllSettled ==
  /\ mta.pc = "waiting"
  /\ \A s \in mta.filter : mta.feed[s].pc = "done"
  /\ mta' = [mta EXCEPT !.pc = "resolved", !.result = Flat(mta.feed, 1)]
  /\ UNCHANGED <<trackerVars, storageVars, now, appVars, miscVars, ghostVars, dv, offset, source, decoded>>

NextMta == GetAllTrains \/ FetchAnswered \/ BodyRead \/ AllSettled

SpecMta == InitMta /\ [][NextMta]_vars

(* C15: a feed whose fetch fails, whose response is not ok or whose buffer
   cannot be decoded makes fetchFeed return the empty list; getAllTrains then
   resolves with the vehicles of the other feed; and every later call of
   getAllTrains fetches each enabled feed again, whatever it answered before. *)
C15_FeedFailureContained ==
  /\ [](\A s \in {"lirr", "metroNorth"} :
          mta.feed[s].outcome \in {"network", "http", "undecodable"}
            => (mta.feed[s].pc = "done" /\ mta.feed[s].value = <<>>))
  /\ [](mta.pc = "resolved" =>
          /\ \A s \in mta.filter : mta.feed[s].pc = "done"
          /\ mta.result = Flat(mta.feed, 1))
  /\ [][mta'.calls = mta.calls + 1 =>
          \A s \in mta'.filter : /\ mta'.feed[s].pc = "fetch"
                                 /\ mta'.fetched[s] = mta.fetched[s] + 1]_vars

----------------------------------------------------------------------------
(* normalizeVehicle on two raw vehicles, each of either feed *)

(* the longest entity id *)
MaxIdLen == 2

(* the characters of the entity ids: '-' and 'e' *)
IdChars == {45, 101}

RECURSIVE IdsOfLen(_)
IdsOfLen(n) ==
  IF n = 0 THEN {<<>>} ELSE {Append(id, c) : id \in IdsOfLen(n - 1), c \in IdChars}

EntityIds == UNION {IdsOfLen(n) : n \in 0..MaxIdLen}

(* '', '_', 'T_1', '_T' *)
TripIds == {<<>>, <<95>>, <<84, 95, 49>>, <<95, 84>>}

(* '', 'L' and '', 'V' *)
VehicleLabels == {<<>>, <<76>>}
VehicleIds == {<<>>, <<86>>}

(* a vehicle as parseFeed pushes it *)
RawVehicle(entityId, vehicleLabel, vehicleId, tripId) ==
  [entityId |-> entityId,
   lat |-> [kind |-> "f32", rep |-> LatOf("some", 1)],
   lon |-> [kind |-> "f32", rep |-> LonOf("some", 1)],
   bearing |-> Null,
   speedMph |-> [mps |-> Zero],
   tripId |-> tripId,
   routeId |-> <<>>,
   vehicleId |-> vehicleId,
   vehicleLabel |-> vehicleLabel,
   stopId |-> <<>>,
   currentStatus |-> [wireType |-> 0, value |-> {1}],
   timestamp |-> [wireType |-> 0, value |-> {}]]

InitNormalize ==
  /\ Loaded
  /\ decoded = Null
  /\ mta = Null
  /\ offset = 0
  /\ dv = <<>>
  /\ \E ea \in EntityIds, eb \in EntityIds, la \in VehicleLabels, lb \in VehicleLabels,
        va \in VehicleIds, ta \in TripIds, fa \in {"lirr", "metroNorth"},
        fb \in {"lirr", "metroNorth"} :
       source = Some([a |-> [v |-> RawVehicle(ea, la, va, ta), feedName |-> fa],
                      b |-> [v |-> RawVehicle(eb, lb, <<>>, <<>>), feedName |-> fb]])

(* vehicles.map(v => this.normalizeVehicle(v, source)), in two fetchFeed calls *)
Normalize ==
  /\ decoded = Null
  /\ decoded' = Some([a |-> normalizeVehicle(source[1].a.v, source[1].a.feedName),
                      b |-> normalizeVehicle(source[1].b.v, source[1].b.feedName)])
  /\ UNCHANGED <<trackerVars, storageVars, now, appVars, miscVars, ghostVars, dv, offset, source, mta>>

NextNormalize == Normalize

SpecNormalize == InitNormalize /\ [][NextNormalize]_vars

(* the first non-empty string of a list, '' when there is none *)
RECURSIVE FirstNonEmpty(_)
FirstNonEmpty(strings) ==
  IF strings = <<>> THEN <<>>
  ELSE IF Head(strings) # <<>> THEN Head(strings) ELSE FirstNonEmpty(Tail(strings))

(* the characters of str before position i that follow no '_' *)
FirstSegment(str) ==
  LET cut == {i \in 1..Len(str) : str[i] = 95}
  IN  IF cut = {} THEN str ELSE SubSeq(str, 1, (CHOOSE i \in cut : \A j \in cut : i <= j) - 1)

(* C21: the vehicle number is the first non-empty of: vehicle label, vehicle
   id, first '_'-separated segment of the trip id, entity id; it is empty only
   if all four are empty. *)
C21_VehicleNumberChain ==
  decoded # Null =>
    \A x \in {"a", "b"} :
      LET v == source[1][x].v
          chain == <<v.vehicleLabel, v.vehicleId, FirstSegment(v.tripId), v.entityId>>
      IN  /\ decoded[1][x].trainNum = FirstNonEmpty(chain)
          /\ decoded[1][x].trainNum = <<>> => \A i \in 1..4 : chain[i] = <<>>

C21_Witness ==
  /\ decoded # Null
  /\ source[1].a.v.vehicleLabel = <<>>
  /\ source[1].a.v.vehicleId = <<>>
  /\ source[1].a.v.tripId = <<84, 95, 49>>
  /\ source[1].a.v.entityId = <<101, 45>>
  /\ decoded[1].a.trainNum = <<84>>
  /\ source[1].b.v.vehicleLabel = <<>>
  /\ source[1].b.v.entityId = <<101>>
  /\ decoded[1].b.trainNum = <<101>>

(* C22: two vehicles get the same trainID only if they have the same source
   and the same entity id, and a vehicle's trainID depends on nothing but its
   source and its entity id: it is 'mta-', the source name, '-', the entity id. *)
C22_CompositeIdNoCollision ==
  decoded # Null =>
    LET a == source[1].a
        b == source[1].b
    IN  /\ (decoded[1].a.trainID = decoded[1].b.trainID)
             <=> (a.feedName = b.feedName /\ a.v.entityId = b.v.entityId)
        /\ \A x \in {"a", "b"} :
             decoded[1][x].trainID =
               MtaDash \o SourceName(source[1][x].feedName) \o Dash \o source[1][x].v.entityId

C22_Witness ==
  /\ decoded # Null
  /\ source[1].a.feedName = "lirr"
  /\ source[1].b.feedName = "metroNorth"
  /\ source[1].a.v.entityId = <<101, 45>>
  /\ source[1].b.v.entityId = <<101, 45>>
  /\ source[1].a.v.vehicleLabel # source[1].b.v.vehicleLabel
  /\ decoded[1].a.trainID # decoded[1].b.trainID

----------------------------------------------------------------------------
(* The spotting log at its cap: a log that holds HistoryCap entries, or one
   less, all of today at the active location, the oldest of them of train 1 *)

(* the log after n trains, numbered from 1 in their order of arrival, were
   each seen once today at A *)
FullHistory(n) ==
  [k \in 1..n |-> [trainID |-> k,
                   locationName |-> "A",
                   closestDistance |-> 1,
                   closestTime |-> 0,
                   speed |-> 0,
                   firstSeen |-> 0,
                   lastSeen |-> 0,
                   sightings |-> 1]]

(* polls of the oldest logged train and of a train not yet logged *)
TrimBatches ==
  LET trains == [trainID : {1, HistoryCap + 1}, lat : {1, 2}, velocity : {0}]
  IN  {<<>>} \cup {<<a>> : a \in trains}
             \cup {<<p[1], p[2]>> : p \in {q \in trains \X trains : q[1].trainID # q[2].trainID}}

InitTrim ==
  /\ Constructed
  /\ dv = <<>>
  /\ offset = 0
  /\ source = Null
  /\ decoded = Null
  /\ mta = Null
  /\ locations = SavedLocations
  /\ activeName = "A"
  /\ settings = Null
  /\ \E n \in (HistoryCap - 1)..HistoryCap :
       /\ history = FullHistory(n)
       /\ appended = [k \in {KeyOf(i, 0, "A") : i \in 1..n} |-> 1]

NextTrim == Poll(TrimBatches, {2})

SpecTrim == InitTrim /\ [][NextTrim]_vars

(* the entries of a log with a given key *)
EntriesOf(hist, key) ==
  {i \in 1..Len(hist) : KeyOf(hist[i].trainID, hist[i].firstSeen, hist[i].locationName) = key}

(* C23: when processTrains returns, the stored history holds, for every train
   of the nearby list, an entry with its trainID, today's date and the name
   of the active location. *)
C23_EveryNearbyTrainLogged ==
  [][IsPoll =>
       \A i \in 1..Len(nearbyTrains') :
         EntriesOf(history', KeyOf(nearbyTrains'[i].trainID, now', activeName')) # {}]_vars

(* C24: the history never holds two entries with the same (trainID, day,
   locationName); an entry's sightings is the number of appends made with its
   key; and an append with a key the history holds makes no new entry: the
   entry's closestDistance becomes the least of its old value and the new
   distance, its lastSeen the time of the append, its sightings one more. *)
C24_RepeatUpdatesEntry ==
  /\ [](\A i \in 1..Len(history) :
          LET key == KeyOf(history[i].trainID, history[i].firstSeen, history[i].locationName)
          IN  /\ EntriesOf(history, key) = {i}
              /\ key \in DOMAIN appended
              /\ history[i].sightings = appended[key])
  /\ [][IsPoll =>
          \A i \in 1..Len(nearbyTrains') :
            LET train == nearbyTrains'[i]
                key == KeyOf(train.trainID, now, activeName)
                old == EntriesOf(history, key)
            IN  old # {} =>
                  \E j \in EntriesOf(history', key) : \E o \in old :
                    /\ history'[j].closestDistance =
                         Min({history[o].closestDistance, train.distance})
                    /\ history'[j].lastSeen = now
                    /\ history'[j].sightings = history[o].sightings + 1
                    /\ history'[j].firstSeen = history[o].firstSeen]_vars

----------------------------------------------------------------------------
(* Tracker.getStats: the counts a poll reports *)

(* polls of stopped trains: one outside the radius, or two inside *)
StatsBatches ==
  {<<[trainID |-> "t1", lat |-> 3, velocity |-> 0]>>,
   <<[trainID |-> "t1", lat |-> 1, velocity |-> 0], [trainID |-> "t2", lat |-> 1, velocity |-> 0]>>}

(* processTrains called with coordinates of its caller's choice, whether or
   not a location is active *)
StatsPoll ==
  /\ polls < MaxPolls
  /\ \E trains \in StatsBatches : processTrains(trains, 0, 2)
  /\ UNCHANGED <<nearbyStations, stationsPassed>>
  /\ UNCHANGED <<locations, activeName, settings, now, appVars, decoderVars, miscVars>>

(* the caller hands a list of stations to processStations *)
ProcessStations ==
  /\ \E stations \in {<<>>} \cup StationsNear(SavedLocations[1]) :
       processStations(stations)
  /\ UNCHANGED <<trainVars, storageVars, now, appVars, polls, lastArgs, runMin, pos0Seen,
                 appended, decoderVars, miscVars>>

(* Storage.deleteLocation(name) for the active location: the active name is
   left as it is *)
DeleteLocation ==
  /\ getActiveLocation # Null
  /\ locations' = SelectSeq(locations, LAMBDA l : l.name # activeName)
  /\ UNCHANGED <<trackerVars, history, activeName, settings, now, appVars, ghostVars, decoderVars, miscVars>>

NextStats == StatsPoll \/ ProcessStations \/ Reset \/ SetActive \/ DeleteLocation \/ Tick

SpecStats == Init /\ [][NextStats]_vars

(* the counts of the claim, taken from the batch, the storage and the list
   last handed to processStations *)
RetainedCount ==
  Cardinality({i \in 1..Len(currentTrains) : currentTrains[i].distance <= lastArgs.radius})

TodayHereCount ==
  IF getActiveLocation = Null THEN 0
  ELSE Cardinality({i \in 1..Len(history) :
                      /\ toDateString(history[i].firstSeen) = toDateString(now)
                      /\ history[i].locationName = activeName})

PassedCount == IF stationsPassed = Null THEN 0 ELSE Len(stationsPassed[1])

(* C25: the stats of a poll report nearbyCount as the number of retained
   records, spottedToday as the number of stored entries of today at the
   active location (0 without an active location, whatever session.spotted
   is) and stationCount as the length of the list last passed to
   processStations (0 after resetSession), which processTrains leaves
   unchanged. *)
C25_StatsCounts ==
  /\ [][IsPoll => /\ getStats'.nearbyCount = RetainedCount'
                  /\ getStats'.spottedToday = TodayHereCount'
                  /\ getStats'.stationCount = PassedCount'
                  /\ getStats'.stationCount = getStats.stationCount]_vars
  /\ [](getStats.stationCount = PassedCount)

C25_Witness ==
  /\ polls >= 1
  /\ getStats.nearbyCount = 0
  /\ Len(currentTrains) = 1
  /\ getStats.spottedToday = 2
  /\ session.spotted = 0
  /\ getStats.stationCount = 2

C25_WitnessNoActive ==
  /\ polls >= 1
  /\ getActiveLocation = Null
  /\ nearbyTrains # <<>>
  /\ history # <<>>
  /\ getStats.spottedToday = 0

----------------------------------------------------------------------------
(* Storage.exportData, Storage.importData, Storage.clearAll *)

(* JavaScript values as JSON sees them *)
JUndefined == [t |-> "undefined"]
JNull == [t |-> "null"]
JNum(n) == [t |-> "num", n |-> n]
JStr(s) == [t |-> "str", s |-> s]
JBool(b) == [t |-> "bool", b |-> b]
JArr(items) == [t |-> "arr", items |-> items]
JObj(members) == [t |-> "obj", members |-> members]   \* members: <<key, value>> pairs in order

(* the tokens of a JSON text *)
Punct(c) == [k |-> c]

(* JSON.stringify(value): a property whose value is undefined is left out, an
   undefined array element is written as null *)
RECURSIVE stringify(_), StringifyItems(_, _), StringifyMembers(_, _, _)
stringify(v) ==
  IF v.t = "num" THEN <<[k |-> "num", n |-> v.n]>>
  ELSE IF v.t = "str" THEN <<[k |-> "str", s |-> v.s]>>
  ELSE IF v.t = "bool" THEN <<Punct(IF v.b THEN "true" ELSE "false")>>
  ELSE IF v.t = "arr" THEN <<Punct("[")>> \o StringifyItems(v.items, 1) \o <<Punct("]")>>
  ELSE IF v.t = "obj" THEN <<Punct("{")>> \o StringifyMembers(v.members, 1, TRUE) \o <<Punct("}")>>
  ELSE <<Punct("null")>>

StringifyItems(items, i) ==
  IF i > Len(items) THEN <<>>
  ELSE (IF i > 1 THEN <<Punct(",")>> ELSE <<>>)
         \o stringify(items[i]) \o StringifyItems(items, i + 1)

StringifyMembers(members, i, first) ==
  IF i > Len(members) THEN <<>>
  ELSE IF members[i][2].t = "undefined" THEN StringifyMembers(members, i + 1, first)
  ELSE (IF first THEN <<>> ELSE <<Punct(",")>>)
         \o <<[k |-> "str", s |-> members[i][1]]>> \o <<Punct(":")>>
         \o stringify(members[i][2]) \o StringifyMembers(members, i + 1, FALSE)

(* JSON.parse(text): the value that starts at token i and the position after it *)
RECURSIVE ParseValue(_, _), ParseItems(_, _, _), ParseMembers(_, _, _)
ParseValue(toks, i) ==
  LET tok == toks[i] IN
  IF tok.k = "num" THEN [value |-> JNum(tok.n), next |-> i + 1]
  ELSE IF tok.k = "str" THEN [value |-> JStr(tok.s), next |-> i + 1]
  ELSE IF tok.k = "true" THEN [value |-> JBool(TRUE), next |-> i + 1]
  ELSE IF tok.k = "false" THEN [value |-> JBool(FALSE), next |-> i + 1]
  ELSE IF tok.k = "[" THEN
    (IF toks[i + 1].k = "]" THEN [value |-> JArr(<<>>), next |-> i + 2]
     ELSE ParseItems(toks, i + 1, <<>>))
  ELSE IF tok.k = "{" THEN
    (IF toks[i + 1].k = "}" THEN [value |-> JObj(<<>>), next |-> i + 2]
     ELSE ParseMembers(toks, i + 1, <<>>))
  ELSE [value |-> JNull, next |-> i + 1]

ParseItems(toks, i, items) ==
  TheOne({IF toks[r.next].k = ","
          THEN ParseItems(toks, r.next + 1, Append(items, r.value))
          ELSE [value |-> JArr(Append(items, r.value)), next |-> r.next + 1] :
            r \in {ParseValue(toks, i)}})

ParseMembers(toks, i, members) ==
  TheOne({IF toks[r.next].k = ","
          THEN ParseMembers(toks, r.next + 1, Append(members, <<toks[i].s, r.value>>))
          ELSE [value |-> JObj(Append(members, <<toks[i].s, r.value>>)), next |-> r.next + 1] :
            r \in {ParseValue(toks, i + 2)}})

parse(toks) == ParseValue(toks, 1).value

(* obj.key: the last member of that name, or undefined *)
Get(obj, key) ==
  LET hits == {i \in 1..Len(obj.members) : obj.members[i][1] = key}
  IN  IF hits = {} THEN JUndefined
      ELSE obj.members[CHOOSE i \in hits : \A j \in hits : j <= i][2]

(* if (value): undefined, null, 0, '' and false are falsy, every object and
   array is truthy *)
IsTruthy(v) ==
  IF v.t = "num" THEN v.n # 0
  ELSE IF v.t = "str" THEN v.s # ""
  ELSE IF v.t = "bool" THEN v.b
  ELSE v.t \in {"arr", "obj"}

(* the stored objects as JavaScript values, and back *)
ProvidersValue(p) == JObj(<<<<"amtrak", JBool(p.amtrak)>>, <<"via", JBool(p.via)>>>>)
SettingsValue(s) ==
  JObj(<<<<"refreshInterval", JNum(s.refreshInterval)>>, <<"radius", JNum(s.radius)>>,
         <<"providers", ProvidersValue(s.providers)>>>>)
LocationValue(l) == JObj(<<<<"name", JStr(l.name)>>, <<"lat", JNum(l.lat)>>>>)
EntryValue(h) ==
  JObj(<<<<"trainID", JStr(h.trainID)>>, <<"locationName", JStr(h.locationName)>>,
         <<"closestDistance", JNum(h.closestDistance)>>, <<"closestTime", JNum(h.closestTime)>>,
         <<"speed", JNum(h.speed)>>, <<"firstSeen", JNum(h.firstSeen)>>,
         <<"lastSeen", JNum(h.lastSeen)>>, <<"sightings", JNum(h.sightings)>>>>)
LocationsValue(s) == JArr([i \in 1..Len(s) |-> LocationValue(s[i])])
HistoryValue(s) == JArr([i \in 1..Len(s) |-> EntryValue(s[i])])

SettingsOf(v) ==
  [refreshInterval |-> Get(v, "refreshInterval").n, radius |-> Get(v, "radius").n,
   providers |-> [amtrak |-> Get(Get(v, "providers"), "amtrak").b,
                  via |-> Get(Get(v, "providers"), "via").b]]
LocationOf(v) == [name |-> Get(v, "name").s, lat |-> Get(v, "lat").n]
EntryOf(v) ==
  [trainID |-> Get(v, "trainID").s, locationName |-> Get(v, "locationName").s,
   closestDistance |-> Get(v, "closestDistance").n, closestTime |-> Get(v, "closestTime").n,
   speed |-> Get(v, "speed").n, firstSeen |-> Get(v, "firstSeen").n,
   lastSeen |-> Get(v, "lastSeen").n, sightings |-> Get(v, "sightings").n]
LocationsOf(v) == [i \in 1..Len(v.items) |-> LocationOf(v.items[i])]
HistoryOf(v) == [i \in 1..Len(v.items) |-> EntryOf(v.items[i])]

(* the defaults of Storage.getSettings *)
DefaultSettings ==
  [refreshInterval |-> 60, radius |-> 10, providers |-> [amtrak |-> TRUE, via |-> TRUE]]

(* Storage.getSettings: { ...defaults, ...parsed }, the providers merged too *)
getSettings ==
  IF settings = Null THEN DefaultSettings
  ELSE LET stored == settings[1]
           parsed == IF "providers" \in DOMAIN stored
                     THEN [stored EXCEPT !.providers = @ @@ DefaultSettings.providers]
                     ELSE stored
       IN  parsed @@ DefaultSettings

(* localStorage.getItem(KEYS.ACTIVE_LOCATION): null when the key is not set *)
ActiveItem == IF activeName = "" THEN JNull ELSE JStr(activeName)

(* exportData that leaves the history out *)
exportDataNoHistory ==
  stringify(JObj(<<<<"settings", SettingsValue(getSettings)>>,
                   <<"locations", LocationsValue(locations)>>,
                   <<"activeLocation", ActiveItem>>,
                   <<"exportedAt", JStr(ToString(now))>>,
                   <<"version", JStr("1.0.0")>>>>))

(* Storage.exportData *)
exportData ==
  stringify(JObj(<<<<"settings", SettingsValue(getSettings)>>,
                   <<"locations", LocationsValue(locations)>>,
                   <<"activeLocation", ActiveItem>>,
                   <<"history", HistoryValue(history)>>,
                   <<"exportedAt", JStr(ToString(now))>>,
                   <<"version", JStr("1.0.0")>>>>))

(* Storage.importData(data) *)
importData(data) ==
  \E parsed \in {parse(data)} :
    /\ settings' = IF IsTruthy(Get(parsed, "settings"))
                   THEN Some(SettingsOf(Get(parsed, "settings"))) ELSE settings
    /\ locations' = IF IsTruthy(Get(parsed, "locations"))
                    THEN LocationsOf(Get(parsed, "locations")) ELSE locations
    /\ activeName' = IF IsTruthy(Get(parsed, "activeLocation"))
                     THEN Get(parsed, "activeLocation").s ELSE activeName
    /\ history' = IF IsTruthy(Get(parsed, "history"))
                  THEN HistoryOf(Get(parsed, "history")) ELSE history

(* Storage.clearAll *)
clearAll ==
  /\ settings' = Null
  /\ locations' = <<>>
  /\ activeName' = ""
  /\ history' = <<>>

(* what the application reads from the storage *)
Stored ==
  [settings |-> getSettings, locations |-> locations, activeLocation |-> activeName,
   history |-> history]

(* the storages an export starts from *)
StoredSettings ==
  {Null, Some([radius |-> 5]), Some([providers |-> [via |-> FALSE]]),
   Some([refreshInterval |-> 30, radius |-> 0, providers |-> [amtrak |-> FALSE, via |-> TRUE]])}

LoggedEntry(trainID, locationName) ==
  [trainID |-> trainID, locationName |-> locationName, closestDistance |-> 0,
   closestTime |-> 0, speed |-> 0, firstSeen |-> 0, lastSeen |-> 0, sightings |-> 1]

StoredHistories ==
  {<<>>, <<LoggedEntry("t1", "A")>>, <<LoggedEntry("t1", "A"), LoggedEntry("t2", "B")>>}

InitBackup ==
  /\ Constructed
  /\ appended = EmptyMap
  /\ dv = <<>>
  /\ offset = 0
  /\ source = Null
  /\ decoded = Null
  /\ mta = Null
  /\ settings \in StoredSettings
  /\ locations \in {<<>>, SavedLocations}
  /\ activeName \in {"", "A", "B"}
  /\ history \in StoredHistories

(* the user downloads a backup: the file, and what the storage held then *)
Export ==
  /\ dv' = exportData
  /\ source' = Some(Stored)
  /\ UNCHANGED <<trackerVars, storageVars, now, appVars, miscVars, ghostVars, offset, decoded, mta>>

(* the user loads the backup *)
Import ==
  /\ dv # <<>>
  /\ importData(dv)
  /\ UNCHANGED <<trackerVars, now, appVars, ghostVars, decoderVars, miscVars>>

(* the storage is emptied *)
ClearAll ==
  /\ clearAll
  /\ UNCHANGED <<trackerVars, now, appVars, ghostVars, decoderVars, miscVars>>

(* Storage.saveSettings(settings) *)
SaveSettings ==
  /\ \E s \in StoredSettings \ {Null} : settings' = s
  /\ UNCHANGED <<trackerVars, history, locations, activeName, now, appVars, ghostVars,
                 decoderVars, miscVars>>

NextBackup == Export \/ Import \/ ClearAll \/ SaveSettings \/ SetActive

SpecBackup == InitBackup /\ [][NextBackup]_vars

Cleared == settings = Null /\ locations = <<>> /\ activeName = "" /\ history = <<>>

(* C26: importing an export into the storage it was taken from leaves the
   settings, the locations, the active location and the history as they
   were; importing it into a cleared storage restores the locations, the
   active location and the history of the export. *)
C26_ExportImportRoundTrip ==
  [][(Import /\ source # Null) =>
       /\ Stored = source[1] => Stored' = source[1]
       /\ Cleared => /\ locations' = source[1].locations
                     /\ activeName' = source[1].activeLocation
                     /\ history' = source[1].history]_vars

C26_Witness ==
  /\ source # Null
  /\ dv # <<>>
  /\ Len(source[1].history) = 2
  /\ source[1].activeLocation = "B"
  /\ source[1].settings.radius = 5
  /\ Stored = source[1]
  /\ settings # Null /\ "refreshInterval" \in DOMAIN settings[1]

----------------------------------------------------------------------------
(* parseMessage on a byte range of its buffer *)

(* the bytes the buffers are made of: the tags of a length-delimited and of a
   varint field 1, and the bytes 1 and 5, which are lengths, values and the
   tags of fixed-width fields 0 *)
SpanBytes == {10, 8, 1, 5}

RECURSIVE SpanBuffersOfLen(_)
SpanBuffersOfLen(n) ==
  IF n = 0 THEN {<<>>}
  ELSE {Append(b, x) : b \in SpanBuffersOfLen(n - 1), x \in SpanBytes}

InitSpan ==
  /\ Loaded
  /\ decoded = Null
  /\ source = Null
  /\ mta = Null
  /\ offset = 0
  /\ dv \in UNION {SpanBuffersOfLen(n) : n \in 0..MaxBufferLen}

(* parseFeed: this.parseMessage(arrayBuffer, 0, arrayBuffer.byteLength) *)
ParseWhole ==
  /\ decoded = Null
  /\ decoded' = Some(parseMessage(dv, 0, Len(dv)))
  /\ source' = Some([start |-> 0, end |-> Len(dv)])
  /\ UNCHANGED <<trackerVars, storageVars, now, appVars, miscVars, ghostVars, dv, offset, mta>>

(* getSubMessage on a length-delimited field of the message parsed last *)
ParseSub ==
  /\ decoded # Null
  /\ decoded[1].status = "ok"
  /\ \E num \in DOMAIN decoded[1].fields :
       \E i \in 1..Len(decoded[1].fields[num]) :
         \E field \in {decoded[1].fields[num][i]} :
           /\ field.wireType = 2
           /\ decoded' = Some(getSubMessage(dv, Some(field)))
           /\ source' = Some(field.value)
  /\ UNCHANGED <<trackerVars, storageVars, now, appVars, miscVars, ghostVars, dv, offset, mta>>

NextSpan == ParseWhole \/ ParseSub

SpecSpan == InitSpan /\ [][NextSpan]_vars

(* C27: parseMessage terminates for every buffer and every range, also for
   the span of a length-delimited field whose declared length runs past the
   end of the buffer. *)
C27_ParseMessageTerminates ==
  decoded # Null => decoded[1].status # "hang"

(* the spans parseMessage has recorded *)
SpansOf(fields) ==
  {fields[num][i].value :
     <<num, i>> \in {q \in (DOMAIN fields) \X (1..MaxBufferLen) :
                      q[2] <= Len(fields[q[1]]) /\ fields[q[1]][q[2]].wireType = 2}}

(* C28: parseMessage(buffer, start, end) reads no byte at an offset >= end,
   and every span it records lies within start..end. *)
C28_StaysInOwnRange ==
  (decoded # Null /\ source # Null) =>
    /\ decoded[1].reach <= source[1].end
    /\ \A span \in SpansOf(decoded[1].fields) :
         /\ source[1].start <= span.start
         /\ span.start <= span.end
         /\ span.end <= source[1].end

----------------------------------------------------------------------------
(* The stations cache while locations are switched *)

NextStations ==
  \/ AppInit
  \/ SwitchLocation
  \/ TimerFire
  \/ FetchResolved
  \/ StationsDone
  \/ StationsFetched(TRUE)
  \/ StationsFailed

SpecStations == Init /\ [][NextStations]_vars

(* the places the stations of a list were fetched for *)
FetchedFor(stations) == {stations[i].near : i \in 1..Len(stations)}

(* C29: the stations cache and Tracker.nearbyStations hold only stations
   fetched for the current location, whatever the order of a station fetch
   and a switch of location. *)
C29_StationsOfCurrentLocation ==
  /\ stationsCache # Null => FetchedFor(stationsCache[1]) \subseteq {activeName}
  /\ FetchedFor(nearbyStations) \subseteq {activeName}

----------------------------------------------------------------------------
(* The setup wizard of a first visit *)

(* the hubs of seedDefaultHubs *)
Hubs ==
  <<[name |-> "Chicago Union Station", lat |-> 3],
    [name |-> "NYC Penn Station", lat |-> 2],
    [name |-> "Washington DC", lat |-> 1]>>

(* Storage.saveLocation(name, lat, ...): the stored locations and the active
   name afterwards *)
saveLocation(stored, location) ==
  LET existing == {i \in 1..Len(stored.locations) : stored.locations[i].name = location.name}
  IN  [locations |-> IF existing # {}
                     THEN [stored.locations EXCEPT
                             ![CHOOSE i \in existing : \A j \in existing : i <= j] = location]
                     ELSE Append(stored.locations, location),
       activeName |-> location.name]

(* Location.setActive(name) *)
setActive(stored, name) == [stored EXCEPT !.activeName = name]

(* hubs.forEach(hub => { if (!existingNames.has(hub.name)) Storage.saveLocation(...) }),
   from the i-th hub on; existingNames is taken before the loop *)
RECURSIVE SeedFrom(_, _, _)
SeedFrom(stored, existingNames, i) ==
  IF i > Len(Hubs) THEN stored
  ELSE SeedFrom(IF Hubs[i].name \notin existingNames THEN saveLocation(stored, Hubs[i])
                ELSE stored,
                existingNames, i + 1)

(* App.seedDefaultHubs *)
seedDefaultHubs(stored) ==
  SeedFrom(stored, {stored.locations[i].name : i \in 1..Len(stored.locations)}, 1)

(* the places a user picks in the wizard: the own place, or one that is a hub *)
WizardChoices == {[name |-> "A", lat |-> 0], [name |-> "Washington DC", lat |-> 1]}

(* a first visit: nothing stored *)
InitSetup ==
  /\ Constructed
  /\ history = <<>>
  /\ locations = <<>>
  /\ activeName = ""
  /\ settings = Null
  /\ appended = EmptyMap
  /\ dv = <<>>
  /\ offset = 0
  /\ source = Null
  /\ decoded = Null
  /\ mta = Null

(* App.init without a saved location: the wizard is shown and the handlers bound *)
InitShowsSetup ==
  /\ ~bound
  /\ getActiveLocation = Null
  /\ bound' = TRUE
  /\ UNCHANGED <<trackerVars, storageVars, now, ghostVars, isRefreshing, refreshGeneration,
                 countdownTimer, intervals, tasks, hidden, console, lastPoll, cacheVars,
                 decoderVars, miscVars>>

(* a place is picked in the wizard: Location.save, Location.setActive,
   seedDefaultHubs, start *)
WizardPick ==
  /\ bound
  /\ locations = <<>>
  /\ \E location \in WizardChoices :
       \E stored \in {seedDefaultHubs(
                        setActive(saveLocation([locations |-> locations,
                                                activeName |-> activeName], location),
                                  location.name))} :
         /\ locations' = stored.locations
         /\ activeName' = stored.activeName
         /\ start(location, FALSE)
  /\ UNCHANGED <<bound, stationsCache, decoderVars, miscVars>>

NextSetup ==
  \/ InitShowsSetup
  \/ WizardPick
  \/ TimerFire
  \/ FetchResolved
  \/ StationsDone
  \/ StationsFetched(FALSE)

SpecSetup == InitSetup /\ [][NextSetup]_vars

(* C30: after the wizard has saved the picked place L, the first stored
   location, and seeded the hubs, the active location is L, every refresh
   uses L, and every entry of the log is recorded under L's name. *)
C30_SeedKeepsActiveLocation ==
  locations # <<>> =>
    /\ getActiveLocation = Some(locations[1])
    /\ \A task \in BagToSet(tasks) : task.loc = locations[1]
    /\ \A i \in 1..Len(history) : history[i].locationName = locations[1].name

----------------------------------------------------------------------------
(* A location tab is removed *)

(* three saved locations, any of them active *)
InitDelete ==
  /\ Constructed
  /\ history = <<>>
  /\ locations = SavedLocations \o <<[name |-> "C", lat |-> 2]>>
  /\ activeName \in {"A", "B", "C"}
  /\ settings = Null
  /\ appended = EmptyMap
  /\ dv = <<>>
  /\ offset = 0
  /\ source = Null
  /\ decoded = Null
  /\ mta = Null

(* onDelete(name), confirmed: Storage.deleteLocation(name), then, with a
   location remaining, Location.setActive(next.name), this.stationsCache =
   null, this.start(next) for the first remaining one.  The tabs carry their
   remove mark only while more than one location is saved. *)
DeleteTab ==
  /\ bound
  /\ Len(locations) > 1
  /\ \E i \in 1..Len(locations) :
       \E remaining \in {SelectSeq(locations, LAMBDA l : l.name # locations[i].name)} :
         /\ locations' = remaining
         /\ activeName' = remaining[1].name
         /\ start(remaining[1], FALSE)
  /\ stationsCache' = Null
  /\ UNCHANGED <<bound, decoderVars, miscVars>>

NextDelete ==
  \/ AppInit
  \/ DeleteTab
  \/ TimerFire
  \/ FetchResolved
  \/ StationsDone
  \/ StationsFetched(FALSE)

SpecDelete == InitDelete /\ [][NextDelete]_vars

(* C31: removing a saved location other than the active one leaves the
   active location and the tracker's session as they are; removing the active
   one makes the first remaining location active and resets the session. *)
C31_DeleteKeepsActiveSession ==
  [][Len(locations') < Len(locations) =>
       IF \E i \in 1..Len(locations') : locations'[i].name = activeName
       THEN /\ activeName' = activeName
            /\ trackerVars' = trackerVars
            /\ refreshGeneration' = refreshGeneration
       ELSE /\ activeName' = locations'[1].name
            /\ session' = FreshSession]_vars

----------------------------------------------------------------------------
(* The spotting history is cleared from the settings *)

(* Storage.clearHistory(all = false) *)
clearHistory(all) == history' = IF all THEN <<>> ELSE history

(* 'Clear all spotting history?', confirmed: Storage.clearHistory(), the list
   on the page emptied, the toast *)
ClearHistoryButton ==
  /\ clearHistory(FALSE)
  /\ toast' = "History cleared"
  /\ UNCHANGED <<trackerVars, locations, activeName, settings, now, appVars, ghostVars,
                 decoderVars, rateVars>>

NextClear == Poll(LogBatches, {2}) \/ ClearHistoryButton

SpecClear == Init /\ [][NextClear]_vars

(* C32: once the user has confirmed 'Clear all spotting history', the stored
   history is empty and the stats count no spotting made before. *)
C32_ClearEmptiesHistory ==
  [][toast' # toast => /\ history' = <<>>
                       /\ getStats'.spottedToday = 0]_vars

(* the key of the i-th entry of a log *)
KeyAt(hist, i) == KeyOf(hist[i].trainID, hist[i].firstSeen, hist[i].locationName)

(* C33: the history never holds more than HistoryCap entries; a poll drops
   entries only when the cap is exceeded, the dropped ones are the oldest in
   the order of insertion, the kept ones stay in that order followed by the
   entries the poll inserted, and every entry inserted for a train that had
   none is kept. *)
C33_KeepsLastEntries ==
  /\ [](Len(history) <= HistoryCap)
  /\ [][IsPoll =>
          /\ \E k \in 0..Len(history) :
               LET kept == Len(history) - k
               IN  /\ Len(history') >= kept
                   /\ \A i \in 1..kept : KeyAt(history', i) = KeyAt(history, k + i)
                   /\ \A i \in (kept + 1)..Len(history') :
                        \E j \in 1..Len(nearbyTrains') :
                          /\ history'[i].trainID = nearbyTrains'[j].trainID
                          /\ history'[i].firstSeen = now
                          /\ history'[i].sightings = 1
                   /\ k > 0 => Len(history') = HistoryCap
          /\ \A j \in 1..Len(nearbyTrains') :
               LET key == KeyOf(nearbyTrains'[j].trainID, now, activeName)
               IN  EntriesOf(history, key) = {} => EntriesOf(history', key) # {}]_vars

(* a full log whose oldest entry was dropped for that of a train not logged
   before *)
C33_Witness ==
  /\ Len(history) = HistoryCap
  /\ history[1].trainID = 2
  /\ history[HistoryCap].trainID = HistoryCap + 1

----------------------------------------------------------------------------
(* The countdown timer under starts, saved settings and visibility changes *)

(* the refresh intervals the settings form offers *)
FormIntervals == {30}

(* 'Save' in the settings: the form's values stored, the stations cache
   dropped, this.startRefresh(), this.refresh(), the toast *)
SettingsSaved ==
  LET r == refresh(Null, isRefreshing, refreshGeneration, FALSE, FALSE)
  IN  /\ bound
      /\ \E interval \in FormIntervals :
           settings' = Some([getSettings EXCEPT !.refreshInterval = interval])
      /\ stationsCache' = Null
      /\ startRefresh
      /\ isRefreshing' = r.isRefreshing
      /\ console' = r.console
      /\ tasks' = tasks (+) r.started
      /\ toast' = "Settings saved!"
      /\ UNCHANGED <<trackerVars, history, locations, activeName, now, ghostVars,
                     refreshGeneration, bound, hidden, lastPoll, stationsCacheTime,
                     decoderVars, rateVars>>

(* one location is saved, and active *)
InitTimer ==
  /\ Constructed
  /\ history = <<>>
  /\ locations = <<SavedLocations[1]>>
  /\ activeName = "A"
  /\ settings = Null
  /\ appended = EmptyMap
  /\ dv = <<>>
  /\ offset = 0
  /\ source = Null
  /\ decoded = Null
  /\ mta = Null

NextTimer ==
  \/ AppInit
  \/ SwitchLocation
  \/ SettingsSaved
  \/ TimerFire
  \/ VisibilityChange
  \/ FetchResolved
  \/ FetchRejected
  \/ StationsDone
  \/ StationsFetched(FALSE)

SpecTimer == InitTimer /\ [][NextTimer]_vars

(* C36: at most one interval timer is set at any time, the one whose handle
   App.countdownTimer holds. *)
C36_OneCountdownTimer ==
  /\ intervals <= 1
  /\ countdownTimer <=> intervals = 1

(* the settings were saved while a timer ran and a refresh of the second
   start was in flight, and one timer is set *)
C36_Witness ==
  /\ toast = "Settings saved!"
  /\ intervals = 1
  /\ ~hidden
  /\ refreshGeneration = 2
  /\ BagCardinality(tasks) >= 2

----------------------------------------------------------------------------
(* App.start: the first refresh, then the timer *)

(* the calls of refresh made by start that are in flight *)
FirstRefreshes(bag) == {task \in BagToSet(bag) : task.fromStart}

(* the number of them *)
FirstRefreshCount(bag) == BagCardinality([task \in FirstRefreshes(bag) |-> bag[task]])

(* C35: a start begins a refresh for a saved location on a fresh session,
   whatever refresh is in flight; and when a start goes on to startRefresh, the first
   refresh of the latest start is not in flight any more. *)
C35_FirstRefreshThenTimer ==
  [][/\ refreshGeneration' # refreshGeneration =>
          /\ session' = FreshSession
          /\ isRefreshing'
          /\ \E task \in FirstRefreshes(tasks') :
               /\ task.gen = refreshGeneration'
               /\ task.pc = "fetch"
               /\ \E i \in 1..Len(locations') : task.loc = locations'[i]
     /\ FirstRefreshCount(tasks') < FirstRefreshCount(tasks) =>
          /\ countdownTimer'
          /\ \A task \in FirstRefreshes(tasks') : task.gen # refreshGeneration']_vars

(* a first visit, then tabs chosen while the first refresh is in flight *)
NextSwitch ==
  \/ InitShowsSetup
  \/ WizardPick
  \/ SwitchLocation
  \/ TimerFire
  \/ FetchResolved
  \/ FetchRejected
  \/ StationsDone
  \/ StationsFetched(FALSE)

SpecSwitch == InitSetup /\ [][NextSwitch]_vars

----------------------------------------------------------------------------
(* The in-progress flag, when every fetch is answered *)

NextRefresh ==
  \/ AppInit
  \/ SwitchLocation
  \/ RefreshButton
  \/ TimerFire
  \/ FetchResolved
  \/ FetchRejected
  \/ StationsDone
  \/ StationsFetched(FALSE)
  \/ StationsFailed

(* every awaited promise settles: the feeds resolve or reject, refreshStations
   returns, getStationsNearPoint resolves or rejects *)
FetchesSettle ==
  /\ WF_vars(FetchResolved \/ FetchRejected)
  /\ WF_vars(StationsDone)
  /\ WF_vars(StationsFetched(FALSE) \/ StationsFailed)

SpecRefresh == InitTimer /\ [][NextRefresh]_vars

SpecRefreshFair == SpecRefresh /\ FetchesSettle

(* C34: whenever the in-progress flag is set it is cleared later, and every
   step in which a refresh call ends leaves it cleared. *)
C34_FlagCleared ==
  /\ isRefreshing ~> ~isRefreshing
  /\ [][BagCardinality(tasks') < BagCardinality(tasks) => ~isRefreshing']_vars

(* a refresh has run to its end and cleared the flag while no other was in
   flight *)
C34_Witness ==
  /\ console = "complete"
  /\ ~isRefreshing
  /\ tasks = EmptyBag
  /\ polls >= 1

----------------------------------------------------------------------------
(* rateLimit of a client, called while earlier calls wait *)

(* the calls of rateLimit that are looked at *)
MaxCalls == 4

(* the ticks of the clock that are looked at *)
MaxClock == 5

(* rateLimit up to its await: a call made minInterval or more after lastCall
   passes at once, another waits for the rest of the interval *)
RateLimitCalled ==
  LET elapsed == now - lastCall
  IN  /\ Len(passed) + BagCardinality(calls) < MaxCalls
      /\ IF elapsed < minInterval
         THEN /\ calls' = calls (+) SetToBag({now + (minInterval - elapsed)})
              /\ UNCHANGED <<lastCall, passed>>
         ELSE /\ lastCall' = now
              /\ passed' = Append(passed, now)
              /\ UNCHANGED calls
      /\ UNCHANGED <<trackerVars, storageVars, now, appVars, ghostVars, decoderVars, toast>>

(* the timeout of a waiting call has run out: this.lastCall = Date.now() *)
RateLimitResumed ==
  \E wake \in BagToSet(calls) :
    /\ wake <= now
    /\ calls' = calls (-) SetToBag({wake})
    /\ lastCall' = now
    /\ passed' = Append(passed, now)
    /\ UNCHANGED <<trackerVars, storageVars, now, appVars, ghostVars, decoderVars, toast>>

(* the clock goes on while calls wait *)
ClockTick ==
  /\ now < MaxClock
  /\ now' = now + 1
  /\ UNCHANGED <<trackerVars, storageVars, appVars, ghostVars, decoderVars, miscVars>>

NextRate == RateLimitCalled \/ RateLimitResumed \/ ClockTick

SpecRate == Init /\ [][NextRate]_vars

(* C37: any two calls of one client leave rateLimit at least minInterval
   apart. *)
C37_MinimumSpacing ==
  \A i \in 1..(Len(passed) - 1) : passed[i + 1] - passed[i] >= minInterval

====
